---- MODULE Spec2Model ----
(***************************************************************************)
(* Model of the coordination layer of the accessibility-assistant backend: *)
(* the Redis-backed cache / lock / rate limiter / idempotency ledger of    *)
(* app/services/cache.py as composed by the OCR endpoint                   *)
(* (app/api/v1/ocr.py), and the async job state machine of                 *)
(* app/services/async_job.py.                                              *)
(*                                                                         *)
(* Time is discrete.  Every Redis key carries its remaining time-to-live;  *)
(* a Tick lets one time unit pass and removes the keys whose TTL reaches   *)
(* zero, as Redis does.  Each await of a handler is one atomic step: the   *)
(* event loop may interleave other requests, and time, between any two.    *)
(***************************************************************************)
EXTENDS Integers, FiniteSets, Sequences, TLC

(***************************************************************************)
(* Settings (app/core/config.py).  The durations are scaled down to a few  *)
(* time units and the quota to a few requests; their order is the one of   *)
(* the defaults (lock TTL <= rate window < cache TTL).                     *)
(***************************************************************************)
\* settings.cache_ttl_ocr_seconds (default 1800)
cache_ttl_ocr_seconds == 3
\* settings.lock_ttl_seconds (default 30)
lock_ttl_seconds == 2
\* settings.rate_limit_window_seconds (default 60)
rate_limit_window_seconds == 2
\* settings.rate_limit_requests (default 30)
rate_limit_requests == 2

\* Calls started in one behaviour of the concurrent specification.
MaxCalls == 2
\* Calls started in one behaviour of the lock-expiry specification.
MaxRaceCalls == 3
\* Calls started in one behaviour of the sequential specification.
MaxSeqCalls == 3
\* Calls started in one behaviour of the failing-delete specification.
MaxDelCalls == 2
\* Calls started in one behaviour of the specification with a running clock.
MaxLiveCalls == 2
\* Requests sent by the two clients that share one idempotency key.
MaxTokCalls == 2
\* Requests sent by the client that exhausts its quota.
MaxQuotaCalls == 3
\* Requests sent while the store may fail a read or an EXPIRE.
MaxErrCalls == 2
\* Requests sent by the client that goes on after being refused.
MaxWindowCalls == 4

Procs == {"p1", "p2"}
\* The client of the sequential specification.
SeqClient == "p1"
Urls == {"u1", "u2"}
\* The image the concurrent requests ask for.
ContendedUrl == "u1"
\* The idempotency-key header; "" is the absent (or empty) header.
Tokens == {"", "t1"}
Subjects == {"s1"}

\* Redis TTL replies for a key without expiry and for a missing key.
NoExpiry == -1
NoKey == -2
\* Python's None: the reply of GET for a missing key, a field a hash or a
\* mapping does not hold.
Null == "null"

(***************************************************************************)
(* run_ocr is the opaque inference: it returns (text, confidence) or       *)
(* raises.  Confidence is in percent (42 is the 0.42 of the placeholder).  *)
(* The text of an image without any text is the empty string.              *)
(***************************************************************************)
InferResults ==
    { [ok |-> TRUE, text |-> "placeholder text", confidence |-> 42],
      [ok |-> TRUE, text |-> "", confidence |-> 42],
      [ok |-> FALSE, text |-> "", confidence |-> 0] }

NoResult == [ok |-> FALSE, text |-> "", confidence |-> 0]

VARIABLES
    cache,      \* cache:ocr:<sha256(url)>  hash {text, confidence} with TTL
    lock,       \* lock:ocr:<sha256(url)>   remaining TTL, 0 when absent
    rate,       \* rate:user:<subject>      counter with TTL
    idem,       \* idem:<token>             string with TTL
    pc,         \* position of each request handler
    req,        \* the request a handler is serving
    loc,        \* the handler's locals (result of with_lock, cached data)
    resp,       \* the response the handler returned
    ev,         \* what the current call did (history)
    ncalls,     \* calls started so far
    lockExpired,\* history, per url: how its lock key was removed by its TTL
    lockOwner,  \* history, per url: whose SET created the lock key, and whether
                \* the key was deleted by a request other than that one
    asked,      \* history, per subject: the rate_limit calls made, and those
                \* answered true, since its counter key was last absent
    ttlExpired, \* history: the kinds of key removed by TTL during this call
    rateAge,    \* history, per subject: time since its counter key was created
    hist,       \* history: the previous call of the sequential client
    log         \* history: the answers of one client's finished calls, in order

orchVars == <<cache, lock, rate, idem, pc, req, loc, resp, ev, ncalls,
              lockExpired, lockOwner, asked, ttlExpired, rateAge, hist, log>>

\* The history variables that only the sequential specification records.
seqHist == <<ttlExpired, rateAge, hist, log>>

\* The async job store and its dispatcher (modelled further below).
VARIABLES
    job,        \* job:<id>         hash with TTL
    statusKey,  \* job:status:<id>  string with TTL
    jpc,        \* position of create_job / process_job_background per job
    jtype,      \* the job type the job was submitted with
    now,        \* the clock (datetime.utcnow)
    failures,   \* store calls that have failed so far
    jexc,       \* str(e) of the exception the dispatcher caught, per job
    jh          \* history per job

jobVars == <<job, statusKey, jpc, jtype, now, failures, jexc, jh>>

\* Two requests and the cache keys computed for them (modelled at the end).
VARIABLES
    kreq,       \* a pair of requests
    kkey,       \* the pair of their cache keys, once computed
    klock       \* the pair of their lock keys, once computed

keyVars == <<kreq, kkey, klock>>

\* One lock holder and its inference against the clock (modelled at the end).
VARIABLES
    bkind,      \* the kind of the latest request that took the lock
    bphase,     \* idle, running, returned or timed_out
    bclock,     \* seconds since the lock key was set
    block       \* remaining TTL of the lock key, 0 when absent

budgetVars == <<bkind, bphase, bclock, block>>

\* One multimodal-LLM cache entry and the puts made to it (modelled at the
\* end).
VARIABLES
    mentry,     \* cache:mm_llm:<digest>  hash {response[, confidence]} with TTL
    mpc,        \* idle, hset, expire or done: position of set_cached_multimodal_llm
    mpayload,   \* the (response, confidence) of the put under way or just made
    mputs       \* puts started so far

putVars == <<mentry, mpc, mpayload, mputs>>

\* The idempotency ledger as the five endpoints share it: one caller sends
\* requests of any kind under an idempotency key.
VARIABLES
    lstore,     \* idem:<token>  string with TTL
    lpc,        \* idle, check or record: position of the endpoint
    lcall,      \* kind and token of the request under way or just answered
    lresp,      \* the answer to the last request
    lcalls      \* requests sent so far

ledgerVars == <<lstore, lpc, lcall, lresp, lcalls>>

\* The variables of the parts that the request handlers and the job
\* dispatcher never touch.
sideVars == <<keyVars, budgetVars, putVars, ledgerVars>>
vars == <<orchVars, jobVars, sideVars>>

\* No request owns the lock key: it is absent and was last removed by its
\* creator's release or by its TTL (or never existed).
NoOwner == [proc |-> Null, how |-> "free", left |-> 0]

\* No rate_limit call since the subject's counter key was last absent.
NoneAsked == [calls |-> 0, allowed |-> 0]

AbsentHash == [present |-> FALSE, text |-> "", confidence |-> 0, ttl |-> NoKey]
AbsentStr == [present |-> FALSE, value |-> "", ttl |-> NoKey]
AbsentCounter == [count |-> 0, ttl |-> NoKey]

NoReq == [url |-> "u1", token |-> "", subject |-> "s1"]
NoLoc == [result |-> NoResult, text |-> "", confidence |-> 0, ttl |-> NoKey]
NoResp == [status |-> "none", cache_hit |-> FALSE, text |-> "",
           confidence |-> 0, ttl_seconds |-> 0]
NoHist == [valid |-> FALSE, req |-> NoReq, resp |-> NoResp, ev |-> {},
           expired |-> {}]

\* ocr_cache_key and ocr_lock_key: both are a prefix and the SHA-256 of the
\* validated url, so each is one key per url.
ocr_cache_key(image_url) == image_url
ocr_lock_key(image_url) == image_url

OrchInit ==
    /\ cache = [u \in Urls |-> AbsentHash]
    /\ lock = [u \in Urls |-> 0]
    /\ rate = [s \in Subjects |-> AbsentCounter]
    /\ idem = [t \in Tokens \ {""} |-> AbsentStr]
    /\ pc = [p \in Procs |-> "idle"]
    /\ req = [p \in Procs |-> NoReq]
    /\ loc = [p \in Procs |-> NoLoc]
    /\ resp = [p \in Procs |-> NoResp]
    /\ ev = [p \in Procs |-> {}]
    /\ ncalls = 0
    /\ lockExpired = [u \in Urls |-> {}]
    /\ lockOwner = [u \in Urls |-> NoOwner]
    /\ asked = [s \in Subjects |-> NoneAsked]
    /\ ttlExpired = {}
    /\ rateAge = [s \in Subjects |-> 0]
    /\ hist = NoHist
    /\ log = <<>>

Active(p) == pc[p] \notin {"idle", "done"}

\* The handler returns (or raises): its locals are gone.
Respond(p, r) ==
    /\ resp' = [resp EXCEPT ![p] = r]
    /\ pc' = [pc EXCEPT ![p] = "done"]
    /\ loc' = [loc EXCEPT ![p] = NoLoc]

\* A request arrives: FastAPI resolves the dependencies and enters the handler.
StartCall(p, u, t, s) ==
    /\ pc[p] \in {"idle", "done"}
    /\ req' = [req EXCEPT ![p] = [url |-> u, token |-> t, subject |-> s]]
    /\ resp' = [resp EXCEPT ![p] = NoResp]
    /\ pc' = [pc EXCEPT ![p] = "idem"]
    /\ ev' = [q \in Procs |->
                IF q = p
                THEN (IF \E o \in Procs \ {p} : Active(o) THEN {"overlap"} ELSE {})
                     \cup (IF cache[ocr_cache_key(u)].present THEN {} ELSE {"cold"})
                ELSE IF Active(q) THEN ev[q] \cup {"overlap"} ELSE ev[q]]
    /\ UNCHANGED <<jobVars, sideVars, cache, lock, rate, idem, loc, lockExpired, asked, lockOwner>>


\* ocr.py:31-39.  `if idem_key and (prior := await idempotency_check(...))`:
\* a missing header skips the lookup; the stored string is tested for truth.
idempotency_check(t) == IF idem[t].present THEN idem[t].value ELSE Null

\* The truth value of `idem_key and (prior := ...)`: None and "" are false.
ReplayHit(t) == t /= "" /\ idempotency_check(t) \notin {Null, ""}

IdempotencyCheck(p) ==
    /\ pc[p] = "idem"
    /\ LET t == req[p].token
           live == t /= "" /\ idem[t].present
       IN  IF ReplayHit(t)
           THEN /\ Respond(p, [status |-> "ok", cache_hit |-> TRUE,
                               text |-> idempotency_check(t), confidence |-> 100,
                               ttl_seconds |-> cache_ttl_ocr_seconds])
                /\ ev' = [ev EXCEPT ![p] = @ \cup {"idem_live", "replay_hit"}]
           ELSE /\ pc' = [pc EXCEPT ![p] = "rate"]
                /\ ev' = [ev EXCEPT ![p] = @ \cup {"replay_miss"}
                                \cup (IF live THEN {"idem_live"} ELSE {})]
                /\ UNCHANGED <<resp, loc>>
    /\ UNCHANGED <<jobVars, sideVars, cache, lock, rate, idem, req, ncalls, lockExpired, asked, lockOwner,
                   seqHist>>

\* cache.py:161-167 rate_limit.  The pipeline is a MULTI/EXEC transaction:
\* INCR and EXPIRE take effect together.
\* A limiter that counts but never rejects.
WithinLimit_Mut(count) == TRUE

WithinLimit(count) == count <= rate_limit_requests

\* A fixed-window limiter: the expiry is set only by the call that creates
\* the counter key.
RateLimit_Mut(p) ==
    /\ pc[p] = "rate"
    /\ LET s == req[p].subject
           count == rate[s].count + 1
       IN  /\ rate' = [rate EXCEPT ![s] =
                          [count |-> count,
                           ttl |-> IF rate[s].count = 0
                                   THEN rate_limit_window_seconds ELSE rate[s].ttl]]
           /\ IF WithinLimit(count)
              THEN /\ pc' = [pc EXCEPT ![p] = "cache"]
                   /\ UNCHANGED <<resp, loc>>
              ELSE Respond(p, [NoResp EXCEPT !.status = "RATE_LIMITED"])
           /\ asked' = [asked EXCEPT ![s] =
                            [calls |-> @.calls + 1,
                             allowed |-> @.allowed + (IF WithinLimit(count) THEN 1 ELSE 0)]]
           /\ ev' = [ev EXCEPT ![p] = @ \cup {"rate_called"}
                           \cup (IF count <= rate_limit_requests
                                 THEN {"admitted"} ELSE {"over_limit"})]
    /\ UNCHANGED <<jobVars, sideVars, cache, lock, idem, req, ncalls, lockExpired, lockOwner,
                   seqHist>>

\* cache.py:161-167 rate_limit when the INCR of the pipeline is applied and
\* its EXPIRE is not: pipe.execute() raises, nothing catches it (ocr.py:41),
\* and the request fails.  The counter keeps the expiry it had; a counter
\* created by this call has none.
RateExpireFails(p) ==
    /\ pc[p] = "rate"
    /\ LET s == req[p].subject
       IN  /\ rate' = [rate EXCEPT ![s] =
                          [count |-> rate[s].count + 1,
                           ttl |-> IF rate[s].count = 0 THEN NoExpiry ELSE rate[s].ttl]]
           /\ asked' = [asked EXCEPT ![s].calls = @ + 1]
    /\ Respond(p, [NoResp EXCEPT !.status = "STORE_ERROR"])
    /\ ev' = [ev EXCEPT ![p] = @ \cup {"rate_called", "expire_failed"}]
    /\ UNCHANGED <<jobVars, sideVars, cache, lock, idem, req, ncalls, lockExpired, lockOwner,
                   seqHist>>

RateLimit(p) ==
    /\ pc[p] = "rate"
    /\ LET s == req[p].subject
           count == rate[s].count + 1
           elapsed == rate[s].count > 0 /\ rateAge[s] >= rate_limit_window_seconds
           seen == {"rate_called"} \cup (IF elapsed THEN {"window_elapsed"} ELSE {})
                      \cup (IF count <= rate_limit_requests
                            THEN {"admitted"} ELSE {"over_limit"})
       IN  /\ rate' = [rate EXCEPT ![s] = [count |-> count,
                                           ttl |-> rate_limit_window_seconds]]
           /\ IF WithinLimit(count)
              THEN /\ pc' = [pc EXCEPT ![p] = "cache"]
                   /\ UNCHANGED <<resp, loc>>
              ELSE Respond(p, [NoResp EXCEPT !.status = "RATE_LIMITED"])
           /\ asked' = [asked EXCEPT ![s] =
                            [calls |-> @.calls + 1,
                             allowed |-> @.allowed + (IF WithinLimit(count) THEN 1 ELSE 0)]]
           /\ ev' = [ev EXCEPT ![p] = @ \cup seen]
    /\ UNCHANGED <<jobVars, sideVars, cache, lock, idem, req, ncalls, lockExpired, lockOwner,
                   seqHist>>

\* cache.py:18-27 get_cached_ocr, first await: HGETALL.  A hash that exists has
\* at least one field, so `if data` is the existence of the key.  The stored
\* confidence is str(float) and is read back with float(): an exact round trip.
\* A read that returns the defaults of get_cached_ocr instead of the stored fields.
HashData_Mut(u) == [text |-> "", confidence |-> 0]

HashData(u) == [text |-> cache[ocr_cache_key(u)].text,
                confidence |-> cache[ocr_cache_key(u)].confidence]

\* A lookup under a key that is never written: every read is a miss.
HashExists_Mut(u) == FALSE

HashExists(u) == cache[ocr_cache_key(u)].present

CacheRead(p, from, miss_ev, hit_ev) ==
    /\ pc[p] = from
    /\ LET u == req[p].url
       IN  /\ ev' = [ev EXCEPT ![p] = @ \cup (IF cache[ocr_cache_key(u)].present
                                              THEN {hit_ev} ELSE {miss_ev})]
           /\ IF HashExists(u)
              THEN /\ loc' = [loc EXCEPT ![p].text = HashData(u).text,
                                         ![p].confidence = HashData(u).confidence]
                   /\ pc' = [pc EXCEPT ![p] = "cache_ttl"]
                   /\ UNCHANGED resp
              ELSE IF from = "cache"
                   THEN pc' = [pc EXCEPT ![p] = "lock"] /\ UNCHANGED <<resp, loc>>
                   ELSE Respond(p, [NoResp EXCEPT !.status = "LOCK_UNAVAILABLE"])
    /\ UNCHANGED <<jobVars, sideVars, cache, lock, rate, idem, req, ncalls, lockExpired, asked, lockOwner,
                   seqHist>>

\* cache.py:18-27 get_cached_ocr when redis.hgetall or redis.ttl raises:
\* neither get_cached_ocr nor the endpoint (ocr.py:49, 64) catches it, the
\* exception leaves the handler and the request fails.
CacheReadFails(p) ==
    /\ pc[p] \in {"cache", "cache_ttl", "recheck"}
    /\ Respond(p, [NoResp EXCEPT !.status = "STORE_ERROR"])
    /\ ev' = [ev EXCEPT ![p] = @ \cup {"cache_read_failed"}
                    \cup (IF pc[p] = "cache" THEN {"first_read_failed"} ELSE {})]
    /\ UNCHANGED <<jobVars, sideVars, cache, lock, rate, idem, req, ncalls, lockExpired, asked,
                   lockOwner, seqHist>>

\* ocr.py:49 the lookup after admission.
CacheLookup(p) == CacheRead(p, "cache", "cache_miss", "cache_hit")

\* ocr.py:64-75 the single re-read after with_lock returned None.
CacheRecheck(p) == CacheRead(p, "recheck", "recheck_miss", "fallback_hit")

\* get_cached_ocr, second await: TTL of the key (-2 once the key is gone),
\* then the cache-hit response of ocr.py:51-57 / 67-73.
CacheTtl(p) ==
    /\ pc[p] = "cache_ttl"
    /\ Respond(p, [status |-> "ok", cache_hit |-> TRUE, text |-> loc[p].text,
                   confidence |-> loc[p].confidence,
                   ttl_seconds |-> cache[ocr_cache_key(req[p].url)].ttl])
    /\ UNCHANGED <<jobVars, sideVars, cache, lock, rate, idem, req, ev, ncalls, lockExpired, asked, lockOwner,
                   seqHist>>

\* cache.py:149-150 acquire_lock: SET key "1" EX ttl NX succeeds iff the key
\* is absent.
\* SET without NX: the lock is taken whether or not it is held.
acquire_lock_Mut(key) == TRUE

acquire_lock(key) == lock[key] = 0

\* An acquire_lock that leaves out the expiry: SET key "1" NX.
AcquireLock_Mut(p) ==
    /\ pc[p] = "lock"
    /\ LET key == ocr_lock_key(req[p].url)
       IN  IF acquire_lock(key)
           THEN /\ lock' = [lock EXCEPT ![key] = NoExpiry]
                /\ lockOwner' = [lockOwner EXCEPT ![key] =
                                    [proc |-> p, how |-> "held", left |-> 0]]
                /\ pc' = [pc EXCEPT ![p] = "infer"]
                /\ ev' = [ev EXCEPT ![p] = @ \cup {"infer", "lock_acquired"}]
           ELSE /\ pc' = [pc EXCEPT ![p] = "recheck"]
                /\ ev' = [ev EXCEPT ![p] = @ \cup {"lock_denied"}]
                /\ UNCHANGED <<lock, lockOwner>>
    /\ UNCHANGED <<jobVars, sideVars, cache, rate, idem, req, loc, resp, ncalls, lockExpired, asked,
                   seqHist>>

\* cache.py:179-186 with_lock up to the await of the coroutine: on success the
\* coroutine (the inference) starts; otherwise sleep 0.05 and return None.
AcquireLock(p) ==
    /\ pc[p] = "lock"
    /\ LET key == ocr_lock_key(req[p].url)
       IN  IF acquire_lock(key)
           THEN /\ lock' = [lock EXCEPT ![key] = lock_ttl_seconds]
                /\ lockOwner' = [lockOwner EXCEPT ![key] =
                                    [proc |-> p, how |-> "held", left |-> 0]]
                /\ pc' = [pc EXCEPT ![p] = "infer"]
                /\ ev' = [ev EXCEPT ![p] = @ \cup {"infer"}
                                \cup (IF lock[key] = 0 THEN {"lock_acquired"}
                                      ELSE {"lock_denied"})]
           ELSE /\ pc' = [pc EXCEPT ![p] = "recheck"]
                /\ ev' = [ev EXCEPT ![p] = @ \cup {"lock_denied"}]
                /\ UNCHANGED <<lock, lockOwner>>
    /\ UNCHANGED <<jobVars, sideVars, cache, rate, idem, req, loc, resp, ncalls, lockExpired, asked,
                   seqHist>>

\* services/ocr.py:10-25 run_ocr completes: a (text, confidence) pair, or an
\* exception (TimeoutError after ocr_timeout_seconds, or any other).
InferDone(p) ==
    /\ pc[p] = "infer"
    /\ \E r \in InferResults :
          loc' = [loc EXCEPT ![p].result = r, ![p].text = r.text,
                             ![p].confidence = r.confidence]
    /\ pc' = [pc EXCEPT ![p] = "release"]
    /\ UNCHANGED <<jobVars, sideVars, cache, lock, rate, idem, req, resp, ev, ncalls, lockExpired, asked, lockOwner,
                   seqHist>>

\* The ownership history after request p deleted the lock key: the key of
\* another request is recorded as deleted, with the TTL it had left.
Deleted(p, key) ==
    IF lock[key] > 0 /\ lockOwner[key].proc /= p
    THEN [proc |-> lockOwner[key].proc, how |-> "deleted", left |-> lock[key]]
    ELSE IF lockOwner[key].proc = p THEN NoOwner ELSE lockOwner[key]

\* with_lock without its finally: the lock is deleted only after a successful
\* inference.
ReleaseLock_Mut(p) ==
    /\ pc[p] = "release"
    /\ lock' = [lock EXCEPT ![ocr_lock_key(req[p].url)] =
                    IF loc[p].result.ok THEN 0 ELSE @]
    /\ lockOwner' = [lockOwner EXCEPT ![ocr_lock_key(req[p].url)] =
                        IF loc[p].result.ok
                        THEN Deleted(p, ocr_lock_key(req[p].url)) ELSE @]
    /\ IF loc[p].result.ok
       THEN pc' = [pc EXCEPT ![p] = "hset"] /\ UNCHANGED <<resp, loc>>
       ELSE Respond(p, [NoResp EXCEPT !.status = "INFER_FAILED"])
    /\ ev' = [ev EXCEPT ![p] = @ \cup {"released"}]
    /\ UNCHANGED <<jobVars, sideVars, cache, rate, idem, req, ncalls, lockExpired, asked,
                   seqHist>>

\* cache.py:153-158 release_lock inside the finally of with_lock: DEL key,
\* whoever holds it.  An exception of the inference then propagates.
ReleaseLock(p) ==
    /\ pc[p] = "release"
    /\ lock' = [lock EXCEPT ![ocr_lock_key(req[p].url)] = 0]
    /\ lockOwner' = [lockOwner EXCEPT ![ocr_lock_key(req[p].url)] =
                        Deleted(p, ocr_lock_key(req[p].url))]
    /\ IF loc[p].result.ok
       THEN pc' = [pc EXCEPT ![p] = "hset"] /\ UNCHANGED <<resp, loc>>
       ELSE Respond(p, [NoResp EXCEPT !.status = "INFER_FAILED"])
    /\ ev' = [ev EXCEPT ![p] = @ \cup {"released"}]
    /\ UNCHANGED <<jobVars, sideVars, cache, rate, idem, req, ncalls, lockExpired, asked,
                   seqHist>>

\* A release_lock without its try/except: the error of the store propagates
\* out of with_lock and the request fails.
ReleaseFails_Mut(p) ==
    /\ pc[p] = "release"
    /\ Respond(p, [NoResp EXCEPT !.status = "STORE_ERROR"])
    /\ ev' = [ev EXCEPT ![p] = @ \cup {"release_failed"}]
    /\ UNCHANGED <<jobVars, sideVars, cache, lock, rate, idem, req, ncalls, lockExpired, asked,
                   lockOwner, seqHist>>

\* cache.py:153-158 release_lock when redis.delete raises: the exception is
\* caught and dropped, the key stays, and with_lock ends as after a
\* successful release (the inference's result, or its exception).
ReleaseFails(p) ==
    /\ pc[p] = "release"
    /\ IF loc[p].result.ok
       THEN pc' = [pc EXCEPT ![p] = "hset"] /\ UNCHANGED <<resp, loc>>
       ELSE Respond(p, [NoResp EXCEPT !.status = "INFER_FAILED"])
    /\ ev' = [ev EXCEPT ![p] = @ \cup {"release_failed"}]
    /\ UNCHANGED <<jobVars, sideVars, cache, lock, rate, idem, req, ncalls, lockExpired, asked,
                   lockOwner, seqHist>>

\* cache.py:30-33 set_cached_ocr, first await: HSET both fields.  A new key has
\* no expiry; an existing key keeps the one it has.
CacheHset(p) ==
    /\ pc[p] = "hset"
    /\ LET key == ocr_cache_key(req[p].url)
       IN  cache' = [cache EXCEPT ![key] =
                        [present |-> TRUE, text |-> loc[p].text,
                         confidence |-> loc[p].confidence,
                         ttl |-> IF cache[key].present THEN cache[key].ttl
                                 ELSE NoExpiry]]
    /\ pc' = [pc EXCEPT ![p] = "expire"]
    /\ UNCHANGED <<jobVars, sideVars, lock, rate, idem, req, loc, resp, ev, ncalls, lockExpired, asked, lockOwner,
                   seqHist>>

FreshResponse(p, ttl) ==
    [status |-> "ok", cache_hit |-> FALSE, text |-> loc[p].text,
     confidence |-> loc[p].confidence, ttl_seconds |-> ttl]

\* A put whose second store call is left out: the entry is written but never
\* given an expiry.
CacheExpire_Mut(p) ==
    /\ pc[p] = "expire"
    /\ ev' = [ev EXCEPT ![p] = @ \cup {"cache_put"}]
    /\ IF req[p].token /= ""
       THEN /\ pc' = [pc EXCEPT ![p] = "setidem"]
            /\ loc' = [loc EXCEPT ![p].ttl = cache_ttl_ocr_seconds]
            /\ UNCHANGED resp
       ELSE Respond(p, FreshResponse(p, cache_ttl_ocr_seconds))
    /\ UNCHANGED <<jobVars, sideVars, cache, lock, rate, idem, req, ncalls, lockExpired, asked, lockOwner, seqHist>>

\* cache.py:34-35 set_cached_ocr, second await: EXPIRE (no effect on a key that
\* is gone), returning the configured TTL; then ocr.py:80-90.
CacheExpire(p) ==
    /\ pc[p] = "expire"
    /\ LET key == ocr_cache_key(req[p].url)
       IN  cache' = [cache EXCEPT ![key].ttl =
                        IF cache[key].present THEN cache_ttl_ocr_seconds ELSE @]
    /\ ev' = [ev EXCEPT ![p] = @ \cup {"cache_put"}]
    /\ IF req[p].token /= ""
       THEN /\ pc' = [pc EXCEPT ![p] = "setidem"]
            /\ loc' = [loc EXCEPT ![p].ttl = cache_ttl_ocr_seconds]
            /\ UNCHANGED resp
       ELSE Respond(p, FreshResponse(p, cache_ttl_ocr_seconds))
    /\ UNCHANGED <<jobVars, sideVars, lock, rate, idem, req, ncalls, lockExpired, asked, lockOwner, seqHist>>

\* A set_idempotency that drops the expiry: SET idem:<token> text.
SetIdempotency_Mut(p) ==
    /\ pc[p] = "setidem"
    /\ idem' = [idem EXCEPT ![req[p].token] =
                   [present |-> TRUE, value |-> loc[p].text, ttl |-> NoExpiry]]
    /\ ev' = [ev EXCEPT ![p] = @ \cup {"idem_put"}]
    /\ Respond(p, FreshResponse(p, loc[p].ttl))
    /\ UNCHANGED <<jobVars, sideVars, cache, lock, rate, req, ncalls, lockExpired, asked, lockOwner,
                   seqHist>>

\* cache.py:175-176 set_idempotency: SET idem:<token> text EX ttl, then the
\* fresh response of ocr.py:84-90.
SetIdempotency(p) ==
    /\ pc[p] = "setidem"
    /\ idem' = [idem EXCEPT ![req[p].token] =
                   [present |-> TRUE, value |-> loc[p].text, ttl |-> loc[p].ttl]]
    /\ ev' = [ev EXCEPT ![p] = @ \cup {"idem_put"}]
    /\ Respond(p, FreshResponse(p, loc[p].ttl))
    /\ UNCHANGED <<jobVars, sideVars, cache, lock, rate, req, ncalls, lockExpired, asked, lockOwner,
                   seqHist>>

(***************************************************************************)
(* Passage of one time unit: every TTL counts down and Redis removes the   *)
(* keys that reach zero.                                                   *)
(***************************************************************************)
AgedHash(h) ==
    IF h.present /\ h.ttl = 1 THEN AbsentHash
    ELSE IF h.present /\ h.ttl > 1 THEN [h EXCEPT !.ttl = @ - 1] ELSE h

AgedStr(v) ==
    IF v.present /\ v.ttl = 1 THEN AbsentStr
    ELSE IF v.present /\ v.ttl > 1 THEN [v EXCEPT !.ttl = @ - 1] ELSE v

AgedCounter(c) ==
    IF c.count > 0 /\ c.ttl = 1 THEN AbsentCounter
    ELSE IF c.count > 0 /\ c.ttl > 1 THEN [c EXCEPT !.ttl = @ - 1] ELSE c

\* The lock key of a live owner ends with its TTL; a deleted key would have
\* ended when the TTL it had left ran out.
AgedOwner(u) ==
    IF lockOwner[u].how = "held" /\ lock[u] = 1 THEN NoOwner
    ELSE IF lockOwner[u].how = "deleted"
         THEN IF lockOwner[u].left = 1 THEN NoOwner
              ELSE [lockOwner[u] EXCEPT !.left = @ - 1]
         ELSE lockOwner[u]

TickKeys ==
    /\ cache' = [u \in Urls |-> AgedHash(cache[u])]
    /\ idem' = [t \in Tokens \ {""} |-> AgedStr(idem[t])]
    /\ rate' = [s \in Subjects |-> AgedCounter(rate[s])]
    /\ lock' = [u \in Urls |-> IF lock[u] > 0 THEN lock[u] - 1 ELSE 0]
    /\ lockOwner' = [u \in Urls |-> AgedOwner(u)]
    /\ asked' = [s \in Subjects |->
                    IF AgedCounter(rate[s]) = AbsentCounter THEN NoneAsked
                    ELSE asked[s]]
    /\ UNCHANGED <<jobVars, sideVars, pc, req, loc, resp, ev, ncalls, hist>>

ExpiringKinds ==
    (IF \E u \in Urls : cache[u].present /\ cache[u].ttl = 1 THEN {"cache"} ELSE {})
    \cup (IF \E t \in Tokens \ {""} : idem[t].present /\ idem[t].ttl = 1
          THEN {"idem"} ELSE {})
    \cup (IF \E s \in Subjects : rate[s].count > 0 /\ rate[s].ttl = 1
          THEN {"rate"} ELSE {})
    \cup (IF \E u \in Urls : lock[u] = 1 THEN {"lock"} ELSE {})

InferRunning(u) == \E p \in Procs : pc[p] = "infer" /\ ocr_lock_key(req[p].url) = u

\* Time passes while requests run concurrently.
Tick ==
    /\ TickKeys
    /\ (\E u \in Urls : cache[u].ttl > 0 \/ lock[u] > 0)
          \/ (\E t \in Tokens \ {""} : idem[t].ttl > 0)
          \/ (\E s \in Subjects : rate[s].count > 0)
    /\ lockExpired' = [u \in Urls |->
                         IF lock[u] = 1
                         THEN lockExpired[u] \cup {"expired"}
                                 \cup (IF InferRunning(u) THEN {"while_infer"} ELSE {})
                         ELSE lockExpired[u]]
    /\ UNCHANGED seqHist

\* A client sends a request for the contended image while others may be in
\* flight.
Start(p) ==
    /\ ncalls < MaxCalls
    /\ \E t \in Tokens, s \in Subjects : StartCall(p, ContendedUrl, t, s)
    /\ ncalls' = ncalls + 1
    /\ UNCHANGED seqHist

\* The steps every request can take.
Step(p) ==
    \/ IdempotencyCheck(p)
    \/ RateLimit(p)
    \/ CacheLookup(p)
    \/ CacheTtl(p)
    \/ AcquireLock(p)
    \/ InferDone(p)
    \/ ReleaseLock(p)
    \/ CacheHset(p)
    \/ CacheExpire(p)

\* One step of the endpoint handler serving p's request.
Handler(p) ==
    \/ Step(p)
    \/ CacheRecheck(p)
    \/ SetIdempotency(p)

\* The handler of a request without idempotency key: `if idem_key:` skips
\* set_idempotency (ocr.py:81).
RaceHandler(p) ==
    \/ Step(p)
    \/ CacheRecheck(p)

\* The handler of the single client: its lock is never held by another
\* request, so with_lock never returns None and the fallback read is not taken.
SeqHandler ==
    \/ Step(SeqClient)
    \/ SetIdempotency(SeqClient)

\* A client without idempotency key sends a request for the contended image.
StartRace(p) ==
    /\ ncalls < MaxRaceCalls
    /\ \E s \in Subjects : StartCall(p, ContendedUrl, "", s)
    /\ ncalls' = ncalls + 1
    /\ UNCHANGED seqHist

\* A client without idempotency key sends a request for the contended image
\* while the store may fail to delete.
StartDel(p) ==
    /\ ncalls < MaxDelCalls
    /\ \E s \in Subjects : StartCall(p, ContendedUrl, "", s)
    /\ ncalls' = ncalls + 1
    /\ UNCHANGED seqHist

\* A client without idempotency key sends a request for the contended image
\* while the store may fail a cache read or the EXPIRE of the rate counter.
StartErr(p) ==
    /\ ncalls < MaxErrCalls
    /\ \E s \in Subjects : StartCall(p, ContendedUrl, "", s)
    /\ ncalls' = ncalls + 1
    /\ UNCHANGED seqHist

\* A client without idempotency key sends a request for the contended image;
\* its handler may stop at any step and never resume.
StartLive(p) ==
    /\ ncalls < MaxLiveCalls
    /\ \E s \in Subjects : StartCall(p, ContendedUrl, "", s)
    /\ ncalls' = ncalls + 1
    /\ UNCHANGED seqHist

\* One client repeats the same request without idempotency key, each time
\* after the previous answer; the history keeps the answers and, across the
\* calls, the kinds of key that expired.
StartQuota ==
    /\ ncalls < MaxQuotaCalls
    /\ \E s \in Subjects : StartCall(SeqClient, ContendedUrl, "", s)
    /\ ncalls' = ncalls + 1
    /\ log' = IF pc[SeqClient] = "done"
              THEN Append(log, [status |-> resp[SeqClient].status,
                                cache_hit |-> resp[SeqClient].cache_hit])
              ELSE log
    /\ UNCHANGED <<ttlExpired, rateAge, hist>>

\* One client keeps sending the same request without idempotency key, each
\* time after the previous answer, past the point where it is refused.
StartWindow ==
    /\ ncalls < MaxWindowCalls
    /\ \E s \in Subjects : StartCall(SeqClient, ContendedUrl, "", s)
    /\ ncalls' = ncalls + 1
    /\ log' = IF pc[SeqClient] = "done"
              THEN Append(log, [status |-> resp[SeqClient].status,
                                cache_hit |-> resp[SeqClient].cache_hit])
              ELSE log
    /\ UNCHANGED <<ttlExpired, rateAge, hist>>

\* Two clients reuse one idempotency key for different images: each sends
\* requests for its own image, so they never contend for a lock.
SharedToken == "t1"
ImageOf == [p1 |-> "u1", p2 |-> "u2"]

StartTok(p) ==
    /\ ncalls < MaxTokCalls
    /\ \E s \in Subjects : StartCall(p, ImageOf[p], SharedToken, s)
    /\ ncalls' = ncalls + 1
    /\ UNCHANGED seqHist

\* The handler of a request that never finds its lock held.
TokHandler(p) ==
    \/ Step(p)
    \/ SetIdempotency(p)

\* The single client sends its next request once the previous one has been
\* answered; the history keeps the previous call.
StartSeq ==
    /\ ncalls < MaxSeqCalls
    /\ \E u \in Urls, t \in Tokens, s \in Subjects : StartCall(SeqClient, u, t, s)
    /\ ncalls' = ncalls + 1
    /\ hist' = IF pc[SeqClient] = "done"
               THEN [valid |-> TRUE, req |-> req[SeqClient], resp |-> resp[SeqClient],
                     ev |-> ev[SeqClient], expired |-> ttlExpired]
               ELSE NoHist
    /\ ttlExpired' = {}
    /\ UNCHANGED <<rateAge, log>>

\* Time passes between the steps of the single client.
TickSeq ==
    /\ TickKeys
    /\ ttlExpired' = ttlExpired \cup ExpiringKinds
    /\ rateAge' = [s \in Subjects |->
                     IF rate[s].count = 0 \/ rate[s].ttl = 1 THEN 0
                     ELSE IF rateAge[s] < rate_limit_window_seconds
                          THEN rateAge[s] + 1 ELSE rateAge[s]]
    /\ UNCHANGED <<lockExpired, log>>

(***************************************************************************)
(* The async job state machine (app/services/async_job.py) and its         *)
(* dispatcher.  A job record is the Redis hash job:<id>; the string        *)
(* job:status:<id> is written beside it.  Durations are scaled: a job's    *)
(* estimated duration is 1 or 2 time units, the creation buffer (300 s) is *)
(* 2 and the status key's retention (3600 s) is 5, longer than any         *)
(* creation TTL, as in the source.                                         *)
(***************************************************************************)
\* async_job.py:51 `ttl = estimated_duration_seconds + 300`
job_ttl_buffer == 2
\* async_job.py:126 `setex(status_key, 3600, ...)`
job_retention == 5
\* The clock stops here.
MaxTime == 6
\* Store calls that fail with an exception in one behaviour.
MaxStoreFailures == 1

Jobs == {"j1"}

\* api/v1/async_job.py:24-29 JOB_ESTIMATED_DURATIONS (scaled)
JOB_ESTIMATED_DURATIONS == [ocr |-> 1, multimodal_llm |-> 2]
JobTypes == {"ocr", "multimodal_llm"}

\* A numeric field that the hash (or a mapping) does not hold.
NoField == -1


AbsentJob == [present |-> FALSE, status |-> Null, progress_percent |-> NoField,
              result |-> Null, error |-> Null, created_at |-> NoField,
              completed_at |-> NoField, ttl |-> NoKey]

\* History of a job: the arguments of the last update_job_status whose HSET
\* took effect, whether the record was ever removed by its TTL, the time
\* since the first update that carried a result or an error, whether the
\* job's work raised, whether COMPLETED was ever written, and the highest
\* progress the record has held.
NoJobHist == [last |-> Null, progress |-> NoField, result |-> Null,
              expired |-> FALSE, sinceTerminal |-> NoField,
              raised |-> FALSE, wasCompleted |-> FALSE, top |-> NoField]

JobInit ==
    /\ job = [j \in Jobs |-> AbsentJob]
    /\ statusKey = [j \in Jobs |-> AbsentStr]
    /\ jpc = [j \in Jobs |-> "none"]
    /\ jtype = [j \in Jobs |-> "ocr"]
    /\ now = 0
    /\ failures = 0
    /\ jexc = [j \in Jobs |-> Null]
    /\ jh = [j \in Jobs |-> NoJobHist]

\* HSET key mapping: the fields of the mapping overwrite, the others stay; a
\* key that did not exist is created without expiry.
HsetJob(h, m) ==
    [present |-> TRUE,
     status |-> IF m.status /= Null THEN m.status ELSE h.status,
     progress_percent |-> IF m.progress_percent /= NoField THEN m.progress_percent
                          ELSE h.progress_percent,
     result |-> IF m.result /= Null THEN m.result ELSE h.result,
     error |-> IF m.error /= Null THEN m.error ELSE h.error,
     created_at |-> IF m.created_at /= NoField THEN m.created_at ELSE h.created_at,
     completed_at |-> IF m.completed_at /= NoField THEN m.completed_at
                      ELSE h.completed_at,
     ttl |-> IF h.present THEN h.ttl ELSE NoExpiry]

\* async_job.py:39-48 the job_state mapping of create_job.
job_state(t) ==
    [status |-> "pending", progress_percent |-> 0, result |-> Null, error |-> Null,
     created_at |-> t, completed_at |-> NoField]

\* An update that leaves progress_percent out of the mapping.
updates_Mut(status, progress_percent, result, error, t) ==
    [status |-> status,
     progress_percent |-> NoField,
     result |-> result,
     error |-> error,
     created_at |-> NoField,
     completed_at |-> IF result /= Null \/ error /= Null THEN t ELSE NoField]

\* async_job.py:109-120 the updates mapping of update_job_status.
updates(status, progress_percent, result, error, t) ==
    [status |-> status,
     progress_percent |-> progress_percent,
     result |-> result,
     error |-> error,
     created_at |-> NoField,
     completed_at |-> IF result /= Null \/ error /= Null THEN t ELSE NoField]

\* async_job.py:63-94 get_job_status: None when HGETALL is empty, else the
\* fields with their defaults (progress_percent 0; result parsed when truthy).
NotFound == [found |-> FALSE, status |-> Null, progress_percent |-> NoField,
             result |-> Null, error |-> Null, created_at |-> NoField,
             completed_at |-> NoField]

get_job_status(j) ==
    IF ~job[j].present THEN NotFound
    ELSE [found |-> TRUE,
          status |-> job[j].status,
          progress_percent |-> IF job[j].progress_percent = NoField THEN 0
                               ELSE job[j].progress_percent,
          result |-> IF job[j].result \notin {Null, ""} THEN job[j].result ELSE Null,
          error |-> job[j].error,
          created_at |-> job[j].created_at,
          completed_at |-> job[j].completed_at]

\* A store call raises (connection error, timeout) without taking effect.
CanFail == failures < MaxStoreFailures

\* api/v1/async_job.py:59-66 and async_job.py:35-53: a job is submitted and
\* create_job writes the hash.
CreateHset(j) ==
    /\ jpc[j] = "none"
    /\ \E ty \in JobTypes :
          /\ jtype' = [jtype EXCEPT ![j] = ty]
          /\ \/ /\ job' = [job EXCEPT ![j] = HsetJob(job[j], job_state(now))]
                /\ jpc' = [jpc EXCEPT ![j] = "create_expire"]
                /\ jh' = [jh EXCEPT ![j].top = job_state(now).progress_percent]
                /\ UNCHANGED failures
             \/ /\ CanFail
                /\ failures' = failures + 1
                /\ jpc' = [jpc EXCEPT ![j] = "rejected"]
                /\ UNCHANGED <<job, jh>>
    /\ UNCHANGED <<orchVars, sideVars, statusKey, now, jexc>>

CreationTtl(j) == JOB_ESTIMATED_DURATIONS[jtype[j]] + job_ttl_buffer

\* async_job.py:54 EXPIRE key ttl.
CreateExpire(j) ==
    /\ jpc[j] = "create_expire"
    /\ \/ /\ job' = [job EXCEPT ![j].ttl = IF job[j].present THEN CreationTtl(j) ELSE @]
          /\ jpc' = [jpc EXCEPT ![j] = "create_setex"]
          /\ UNCHANGED failures
       \/ /\ CanFail
          /\ failures' = failures + 1
          /\ jpc' = [jpc EXCEPT ![j] = "rejected"]
          /\ UNCHANGED job
    /\ UNCHANGED <<orchVars, sideVars, statusKey, jtype, now, jexc, jh>>

\* async_job.py:57-58 SETEX status_key ttl PENDING; then the endpoint starts
\* process_job_background as a task (api/v1/async_job.py:69-77).
CreateSetex(j) ==
    /\ jpc[j] = "create_setex"
    /\ \/ /\ statusKey' = [statusKey EXCEPT ![j] =
                              [present |-> TRUE, value |-> "pending",
                               ttl |-> CreationTtl(j)]]
          /\ jpc' = [jpc EXCEPT ![j] = "created"]
          /\ UNCHANGED failures
       \/ /\ CanFail
          /\ failures' = failures + 1
          /\ jpc' = [jpc EXCEPT ![j] = "rejected"]
          /\ UNCHANGED statusKey
    /\ UNCHANGED <<orchVars, sideVars, job, jtype, now, jexc, jh>>

\* The calls of update_job_status in process_job_background, in order
\* (async_job.py:142-166), and the one of the except clause (169-174).
\* The result is the sample result, which names the job type.
Plan(j) ==
    [created |-> [status |-> "processing", progress |-> 10, result |-> Null,
                  error |-> Null, next |-> "work1"],
     work1   |-> [status |-> "processing", progress |-> 50, result |-> Null,
                  error |-> Null, next |-> "work2"],
     work2   |-> [status |-> "processing", progress |-> 90, result |-> Null,
                  error |-> Null, next |-> "finish"],
     finish  |-> [status |-> "completed", progress |-> 100, result |-> jtype[j],
                  error |-> Null, next |-> "done"],
     failed  |-> [status |-> "failed", progress |-> NoField, result |-> Null,
                  error |-> jexc[j], next |-> "done"]]

Steps == {"created", "work1", "work2", "finish", "failed"}

\* str(e) of a store error, and of the exceptions the job's work can raise
\* (an exception without arguments has the empty message).
StoreError == "store error"
WorkErrors == {"work error", ""}

\* An except clause that swallows the exception and lets the job complete.
OnException_Mut(step) == "finish"

\* Where an exception raised inside the try block lands; one raised by the
\* except clause's own update ends the task.
OnException(step) == IF step = "failed" THEN "crashed" ELSE "failed"

\* async_job.py:108-122 update_job_status: HSET the updates.
UpdateHset(j) ==
    /\ jpc[j] \in Steps
    /\ LET c == Plan(j)[jpc[j]]
       IN  \/ /\ job' = [job EXCEPT ![j] =
                           HsetJob(job[j], updates(c.status, c.progress, c.result,
                                                   c.error, now))]
              /\ jpc' = [jpc EXCEPT ![j] = <<jpc[j], "setex">>]
              /\ jh' = [jh EXCEPT ![j].last = c.status,
                                  ![j].progress = c.progress,
                                  ![j].result = c.result,
                                  ![j].sinceTerminal =
                                      IF @ = NoField /\ (c.result /= Null \/ c.error /= Null)
                                      THEN 0 ELSE @,
                                  ![j].wasCompleted = @ \/ c.status = "completed",
                                  ![j].top = IF c.progress > @ THEN c.progress ELSE @]
              /\ UNCHANGED <<failures, jexc>>
           \/ /\ CanFail
              /\ failures' = failures + 1
              /\ jpc' = [jpc EXCEPT ![j] = OnException(jpc[j])]
              /\ jexc' = [jexc EXCEPT ![j] = StoreError]
              /\ UNCHANGED <<job, jh>>
    /\ UNCHANGED <<orchVars, sideVars, statusKey, jtype, now>>

\* async_job.py:124-126 update_job_status: SETEX status_key 3600 status.
UpdateSetex(j) ==
    /\ jpc[j] \in {<<st, "setex">> : st \in Steps}
    /\ LET step == jpc[j][1]
           c == Plan(j)[step]
       IN  \/ /\ statusKey' = [statusKey EXCEPT ![j] =
                                  [present |-> TRUE, value |-> c.status,
                                   ttl |-> job_retention]]
              /\ jpc' = [jpc EXCEPT ![j] = c.next]
              /\ UNCHANGED <<failures, jexc>>
           \/ /\ CanFail
              /\ failures' = failures + 1
              /\ jpc' = [jpc EXCEPT ![j] = OnException(step)]
              /\ jexc' = [jexc EXCEPT ![j] = StoreError]
              /\ UNCHANGED statusKey
    /\ UNCHANGED <<orchVars, sideVars, job, jtype, now, jh>>

\* async_job.py:144-149 the job's work (the simulated work between the
\* progress updates; the ML service call in production) raises an exception,
\* which the except clause of process_job_background catches.
WorkSteps == {"work1", "work2"}

WorkRaises(j) ==
    /\ jpc[j] \in WorkSteps
    /\ \E e \in WorkErrors : jexc' = [jexc EXCEPT ![j] = e]
    /\ jpc' = [jpc EXCEPT ![j] = OnException(jpc[j])]
    /\ jh' = [jh EXCEPT ![j].raised = TRUE]
    /\ UNCHANGED <<orchVars, sideVars, job, statusKey, jtype, now, failures>>

\* One time unit passes for the job keys.
TickJobs ==
    /\ now < MaxTime
    /\ now' = now + 1
    /\ job' = [j \in Jobs |->
                 IF job[j].present /\ job[j].ttl = 1 THEN AbsentJob
                 ELSE IF job[j].present /\ job[j].ttl > 1
                      THEN [job[j] EXCEPT !.ttl = @ - 1] ELSE job[j]]
    /\ statusKey' = [j \in Jobs |-> AgedStr(statusKey[j])]
    /\ jh' = [j \in Jobs |->
                [jh[j] EXCEPT !.expired = @ \/ (job[j].present /\ job[j].ttl = 1),
                              !.sinceTerminal =
                                  IF @ /= NoField /\ @ < job_retention THEN @ + 1 ELSE @]]
    /\ UNCHANGED <<orchVars, sideVars, jpc, jtype, failures, jexc>>

\* One time unit passes for the job keys whatever the clock reads: the store
\* goes on expiring keys after the timestamps have reached MaxTime.
TickJobsLive ==
    /\ now' = IF now < MaxTime THEN now + 1 ELSE now
    /\ job' = [j \in Jobs |->
                 IF job[j].present /\ job[j].ttl = 1 THEN AbsentJob
                 ELSE IF job[j].present /\ job[j].ttl > 1
                      THEN [job[j] EXCEPT !.ttl = @ - 1] ELSE job[j]]
    /\ statusKey' = [j \in Jobs |-> AgedStr(statusKey[j])]
    /\ jh' = [j \in Jobs |->
                [jh[j] EXCEPT !.expired = @ \/ (job[j].present /\ job[j].ttl = 1),
                              !.sinceTerminal =
                                  IF @ /= NoField /\ @ < job_retention THEN @ + 1 ELSE @]]
    /\ UNCHANGED <<orchVars, sideVars, jpc, jtype, failures, jexc>>

NextJob ==
    \/ \E j \in Jobs : CreateHset(j)
    \/ \E j \in Jobs : CreateExpire(j)
    \/ \E j \in Jobs : CreateSetex(j)
    \/ \E j \in Jobs : UpdateHset(j)
    \/ \E j \in Jobs : UpdateSetex(j)
    \/ \E j \in Jobs : WorkRaises(j)
    \/ TickJobs

(***************************************************************************)
(* The cache keys of the four kinds of request (app/services/cache.py).    *)
(* A string is the sequence of its characters, so that the f-strings are   *)
(* concatenations.  SHA-256 is taken to be free of collisions: the digest  *)
(* of a string stands for that string.  A number is formatted to one       *)
(* symbol: its decimal form, which holds no colon and differs from one     *)
(* number to the next.                                                     *)
(***************************************************************************)
Kinds == {"ocr", "obj_det", "scene_cap", "mm_llm"}

\* The urls "u" and "u:p" (a colon in the path), the prompts "q" and "p:q".
KeyUrls == {<<"u">>, <<"u", ":", "p">>}
Prompts == {<<"q">>, <<"p", ":", "q">>}
Locales == {"en", "fr"}
Thresholds == {25, 50}
MaxLengths == {50, 100}
MaxTokens == {256, 512}
Temperatures == {0, 7}

\* The parameters a kind does not take are Null.
KeyRequest(kind, image_url, locale, confidence_threshold, max_length, prompt, max_tokens, temperature) ==
    [kind |-> kind, image_url |-> image_url, locale |-> locale,
     confidence_threshold |-> confidence_threshold, max_length |-> max_length,
     prompt |-> prompt, max_tokens |-> max_tokens, temperature |-> temperature]

KeyRequests ==
    {KeyRequest("ocr", u, l, Null, Null, Null, Null, Null) :
         u \in KeyUrls, l \in Locales}
    \cup {KeyRequest("obj_det", u, Null, c, Null, Null, Null, Null) :
              u \in KeyUrls, c \in Thresholds}
    \cup {KeyRequest("scene_cap", u, Null, Null, m, Null, Null, Null) :
              u \in KeyUrls, m \in MaxLengths}
    \cup {KeyRequest("mm_llm", u, Null, Null, Null, q, n, t) :
              u \in KeyUrls, q \in Prompts, n \in MaxTokens, t \in Temperatures}

NoKeyRequest == KeyRequest("ocr", <<"u">>, "en", Null, Null, Null, Null, Null)
NoKeys == <<Null, Null>>

\* f"{x}" of a number.
Format(x) == <<x>>
\* hashlib.sha256(s.encode("utf-8")).hexdigest()
Digest(s) == s

\* cache.py:39-43
object_detection_cache_key(image_url, confidence_threshold) ==
    <<"cache:obj_det:">> \o Digest(image_url \o <<":">> \o Format(confidence_threshold))

\* cache.py:70-74
scene_caption_cache_key(image_url, max_length) ==
    <<"cache:scene_cap:">> \o Digest(image_url \o <<":">> \o Format(max_length))

\* cache.py:106-110
multimodal_llm_cache_key(image_url, prompt, max_tokens, temperature) ==
    <<"cache:mm_llm:">>
        \o Digest(image_url \o <<":">> \o prompt \o <<":">> \o Format(max_tokens)
                      \o <<":">> \o Format(temperature))

\* The key under which each endpoint reads and writes its cache entry
\* (ocr.py:49,79; object_detection.py:82,141; scene_caption.py:72,115;
\* multimodal_llm.py:77,133).
CacheKeyOf(r) ==
    CASE r.kind = "ocr" -> <<"cache:ocr:">> \o Digest(ocr_cache_key(r.image_url))
      [] r.kind = "obj_det" ->
             object_detection_cache_key(r.image_url, r.confidence_threshold)
      [] r.kind = "scene_cap" -> scene_caption_cache_key(r.image_url, r.max_length)
      [] r.kind = "mm_llm" ->
             multimodal_llm_cache_key(r.image_url, r.prompt, r.max_tokens,
                                      r.temperature)

\* cache.py:46-49
object_detection_lock_key(image_url) == <<"lock:obj_det:">> \o Digest(image_url)

\* cache.py:77-80
scene_caption_lock_key(image_url) == <<"lock:scene_cap:">> \o Digest(image_url)

\* cache.py:113-117
multimodal_llm_lock_key(image_url, prompt) ==
    <<"lock:mm_llm:">> \o Digest(image_url \o <<":">> \o prompt)

\* The key each endpoint passes to with_lock (ocr.py:59, object_detection.py:103,
\* scene_caption.py:85, multimodal_llm.py:94).
LockKeyOf(r) ==
    CASE r.kind = "ocr" -> <<"lock:ocr:">> \o Digest(ocr_lock_key(r.image_url))
      [] r.kind = "obj_det" -> object_detection_lock_key(r.image_url)
      [] r.kind = "scene_cap" -> scene_caption_lock_key(r.image_url)
      [] r.kind = "mm_llm" -> multimodal_llm_lock_key(r.image_url, r.prompt)

\* The arguments each endpoint passes to its inference (ocr.py:61,
\* object_detection.py:108, scene_caption.py:90, multimodal_llm.py:99-104).
InferArgs(r) ==
    CASE r.kind = "ocr" -> <<r.image_url, r.locale>>
      [] r.kind = "obj_det" -> <<r.image_url, r.confidence_threshold>>
      [] r.kind = "scene_cap" -> <<r.image_url, r.max_length>>
      [] r.kind = "mm_llm" -> <<r.image_url, r.prompt, r.max_tokens, r.temperature>>

\* No request is being keyed.
KeyIdle == kreq = <<NoKeyRequest, NoKeyRequest>> /\ kkey = NoKeys /\ klock = NoKeys

\* Two requests have been received.
KeyInit == kreq \in KeyRequests \X KeyRequests /\ kkey = NoKeys /\ klock = NoKeys

\* The two endpoints compute their cache keys.
ComputeKeys ==
    /\ kkey = NoKeys
    /\ kkey' = <<CacheKeyOf(kreq[1]), CacheKeyOf(kreq[2])>>
    /\ klock' = <<LockKeyOf(kreq[1]), LockKeyOf(kreq[2])>>
    /\ UNCHANGED <<orchVars, jobVars, budgetVars, putVars, ledgerVars, kreq>>

(***************************************************************************)
(* The lock TTL against the inference timeouts, in seconds as configured.  *)
(* Every endpoint passes settings.lock_ttl_seconds to with_lock and wraps   *)
(* its inference in asyncio.wait_for with the timeout of its kind.  (The    *)
(* request handlers above run on scaled-down settings; this part keeps the  *)
(* configured values, since the claim is about them.)                       *)
(***************************************************************************)
\* core/config.py:13-26, the defaults.
Settings ==
    [ocr_timeout_seconds |-> 8,
     lock_ttl_seconds |-> 30,
     object_detection_timeout_seconds |-> 10,
     scene_caption_timeout_seconds |-> 15,
     multimodal_llm_timeout_seconds |-> 30]

\* The timeout each service passes to asyncio.wait_for.
Timeout(kind) ==
    CASE kind = "ocr" -> Settings.ocr_timeout_seconds
      [] kind = "obj_det" -> Settings.object_detection_timeout_seconds
      [] kind = "scene_cap" -> Settings.scene_caption_timeout_seconds
      [] kind = "mm_llm" -> Settings.multimodal_llm_timeout_seconds

BudgetInit == bkind = Null /\ bphase = "idle" /\ bclock = 0 /\ block = 0

\* with_lock: SET key "1" EX lock_ttl_seconds NX on a free key, then the
\* inference coroutine is awaited.
BudgetAcquire(kind) ==
    /\ bphase = "idle"
    /\ bkind' = kind
    /\ bphase' = "running"
    /\ bclock' = 0
    /\ block' = Settings.lock_ttl_seconds
    /\ UNCHANGED <<orchVars, jobVars, keyVars, putVars, ledgerVars>>

\* A second passes while the inference runs; the store counts the key down.
BudgetTick ==
    /\ bphase = "running"
    /\ bclock < Timeout(bkind)
    /\ bclock' = bclock + 1
    /\ block' = IF block > 0 THEN block - 1 ELSE 0
    /\ UNCHANGED <<orchVars, jobVars, keyVars, putVars, ledgerVars, bkind, bphase>>

\* The inference returns within its timeout.
InferReturns ==
    /\ bphase = "running"
    /\ bphase' = "returned"
    /\ UNCHANGED <<orchVars, jobVars, keyVars, putVars, ledgerVars, bkind, bclock, block>>

\* asyncio.wait_for gives up once the timeout has run out.
InferTimesOut ==
    /\ bphase = "running"
    /\ bclock = Timeout(bkind)
    /\ bphase' = "timed_out"
    /\ UNCHANGED <<orchVars, jobVars, keyVars, putVars, ledgerVars, bkind, bclock, block>>

\* The finally of with_lock: DEL key.
BudgetRelease ==
    /\ bphase \in {"returned", "timed_out"}
    /\ bphase' = "idle"
    /\ bclock' = 0
    /\ block' = 0
    /\ UNCHANGED <<orchVars, jobVars, keyVars, putVars, ledgerVars, bkind>>

NextBudget ==
    \/ \E kind \in Kinds : BudgetAcquire(kind)
    \/ BudgetTick
    \/ InferReturns
    \/ InferTimesOut
    \/ BudgetRelease

(***************************************************************************)
(* The multimodal-LLM cache entry (cache.py:120-146): a hash with the       *)
(* field response and, when the inference gave one, the field confidence.   *)
(* Puts to one key follow one another; a put reaches a key that already     *)
(* holds an entry whenever two requests for it both inferred.  The TTL      *)
(* (3600 s) is scaled to twice the OCR TTL, as configured.                  *)
(***************************************************************************)
\* core/config.py:19
cache_ttl_multimodal_llm_seconds == 6

\* Puts made in one behaviour.
MaxPuts == 3

Responses == {"r1", "r2"}
\* run_multimodal_llm returns (response, Optional confidence); the
\* confidence is in hundredths, NoField when it is None.
Confidences == {NoField, 80, 90}
MmPayloads == [response : Responses, confidence : Confidences]

AbsentEntry == [present |-> FALSE, response |-> Null, confidence |-> NoField, ttl |-> NoKey]

PutInit ==
    /\ mentry = AbsentEntry
    /\ mpc = "idle"
    /\ mpayload = [response |-> Null, confidence |-> NoField]
    /\ mputs = 0

\* cache.py:139-141 the mapping of a put: confidence only when it is not None.
Mapping(payload) ==
    IF payload.confidence /= NoField THEN {"response", "confidence"} ELSE {"response"}

\* HSET key mapping: the fields of the mapping are set, every other field of
\* an existing hash is kept, and so is its expiry.
HsetEntry(h, payload) ==
    [present |-> TRUE,
     response |-> payload.response,
     confidence |-> IF "confidence" \in Mapping(payload) THEN payload.confidence
                    ELSE h.confidence,
     ttl |-> IF h.present THEN h.ttl ELSE NoExpiry]

\* cache.py:120-132 get_cached_multimodal_llm without the TTL: None on a miss,
\* else the response and the confidence (None when the field is absent).
get_cached_multimodal_llm(h) ==
    IF h.present THEN [response |-> h.response, confidence |-> h.confidence]
    ELSE Null

\* An endpoint calls set_cached_multimodal_llm with the result of its
\* inference (multimodal_llm.py:133-141).
PutStart(payload) ==
    /\ mpc \in {"idle", "done"}
    /\ mputs < MaxPuts
    /\ mputs' = mputs + 1
    /\ mpayload' = payload
    /\ mpc' = "hset"
    /\ UNCHANGED <<orchVars, jobVars, keyVars, budgetVars, ledgerVars, mentry>>

\* cache.py:142 await redis.hset(key, mapping=mapping)
PutHset ==
    /\ mpc = "hset"
    /\ mentry' = HsetEntry(mentry, mpayload)
    /\ mpc' = "expire"
    /\ UNCHANGED <<orchVars, jobVars, keyVars, budgetVars, ledgerVars, mpayload, mputs>>

\* cache.py:143 await redis.expire(key, ttl): no effect on a key that is gone.
PutExpire ==
    /\ mpc = "expire"
    /\ mentry' = IF mentry.present
                 THEN [mentry EXCEPT !.ttl = cache_ttl_multimodal_llm_seconds]
                 ELSE mentry
    /\ mpc' = "done"
    /\ UNCHANGED <<orchVars, jobVars, keyVars, budgetVars, ledgerVars, mpayload, mputs>>

\* Time passes; the entry goes when its TTL runs out.
PutTick ==
    /\ mentry.present /\ mentry.ttl > 0
    /\ mentry' = IF mentry.ttl = 1 THEN AbsentEntry
                 ELSE [mentry EXCEPT !.ttl = @ - 1]
    /\ UNCHANGED <<orchVars, jobVars, keyVars, budgetVars, ledgerVars, mpc, mpayload, mputs>>

NextPut ==
    \/ \E payload \in MmPayloads : PutStart(payload)
    \/ PutHset
    \/ PutExpire
    \/ PutTick

(***************************************************************************)
(* The idempotency ledger across the endpoints.  Every endpoint reads and  *)
(* writes idem:<token> through idempotency_check / set_idempotency         *)
(* (cache.py:170-176); the key holds the token only.  A stored string is   *)
(* represented by what a reader can tell of it: whether json.loads accepts *)
(* it and, if so, the keys of the object it yields.  `by` is history: the  *)
(* kind of the request that stored it.                                     *)
(***************************************************************************)
\* Requests sent to the ledger by the one caller.
MaxLedgerCalls == 3

LedgerKinds == Kinds \cup {"nlq"}
LedgerTokens == Tokens \ {""}

AbsentRecord == [present |-> FALSE, json |-> FALSE, keys |-> {}, by |-> Null, ttl |-> NoKey]
NoLedgerResp == [status |-> "none", replay |-> FALSE, kind |-> Null, by |-> Null]

LedgerInit ==
    /\ lstore = [t \in LedgerTokens |-> AbsentRecord]
    /\ lpc = "idle"
    /\ lcall = [kind |-> Null, token |-> Null]
    /\ lresp = NoLedgerResp
    /\ lcalls = 0

\* The value each endpoint hands to set_idempotency: the OCR text as it is
\* (ocr.py:81), json.dumps of an object for the others
\* (object_detection.py:148, scene_caption.py:122, multimodal_llm.py:146, 287).
idem_value(k) ==
    CASE k = "ocr"       -> [json |-> FALSE, keys |-> {}]
      [] k = "obj_det"   -> [json |-> TRUE, keys |-> {"objects", "total_objects"}]
      [] k = "scene_cap" -> [json |-> TRUE, keys |-> {"caption", "confidence"}]
      [] k = "mm_llm"    -> [json |-> TRUE, keys |-> {"response", "confidence"}]
      [] k = "nlq"       -> [json |-> TRUE, keys |-> {"answer", "confidence"}]

\* The TTL each endpoint gives the record: its kind's cache TTL.
idem_ttl(k) ==
    IF k \in {"mm_llm", "nlq"} THEN cache_ttl_multimodal_llm_seconds
    ELSE cache_ttl_ocr_seconds

\* The keys a replay branch subscripts (the others are read with .get).
Subscripted(k) ==
    CASE k = "ocr"       -> {}
      [] k = "obj_det"   -> {"objects", "total_objects"}
      [] k = "scene_cap" -> {"caption"}
      [] k = "mm_llm"    -> {"response"}
      [] k = "nlq"       -> {"answer"}

\* A ledger keyed by kind and token: a request only finds what its own kind
\* stored.
Prior_Mut(k, t) == lstore[t].present /\ lstore[t].by = k

\* idempotency_check(redis, idem_key): the string under idem:<token>, if any.
Prior(k, t) == lstore[t].present

\* The replay branch of an endpoint on the string it found.  OCR returns it
\* as the text (ocr.py:31-39); the others json.loads it and subscript the
\* result (object_detection.py:50-70, scene_caption.py:49-60,
\* multimodal_llm.py:55-65, 196-206): JSONDecodeError or KeyError leave the
\* handler.
Replay(k, v) ==
    [status |-> IF k = "ocr" THEN "ok"
                ELSE IF ~v.json THEN "JSONDecodeError"
                ELSE IF Subscripted(k) \subseteq v.keys THEN "ok"
                ELSE "KeyError",
     replay |-> TRUE, kind |-> k, by |-> v.by]

\* A request of some kind arrives with an idempotency key.
LedgerStart ==
    /\ lpc = "idle"
    /\ lcalls < MaxLedgerCalls
    /\ \E k \in LedgerKinds, t \in LedgerTokens : lcall' = [kind |-> k, token |-> t]
    /\ lpc' = "check"
    /\ lcalls' = lcalls + 1
    /\ UNCHANGED <<orchVars, jobVars, keyVars, budgetVars, putVars, lstore, lresp>>

\* The idempotency check at the head of every endpoint.
LedgerCheck ==
    /\ lpc = "check"
    /\ IF Prior(lcall.kind, lcall.token)
       THEN /\ lresp' = Replay(lcall.kind, lstore[lcall.token])
            /\ lpc' = "idle"
       ELSE /\ lpc' = "record"
            /\ UNCHANGED lresp
    /\ UNCHANGED <<orchVars, jobVars, keyVars, budgetVars, putVars, lstore, lcall, lcalls>>

\* The end of a fresh request: set_idempotency, then the response.
LedgerRecord ==
    /\ lpc = "record"
    /\ lstore' = [lstore EXCEPT ![lcall.token] =
                      [present |-> TRUE, json |-> idem_value(lcall.kind).json,
                       keys |-> idem_value(lcall.kind).keys, by |-> lcall.kind,
                       ttl |-> idem_ttl(lcall.kind)]]
    /\ lresp' = [status |-> "ok", replay |-> FALSE, kind |-> lcall.kind, by |-> lcall.kind]
    /\ lpc' = "idle"
    /\ UNCHANGED <<orchVars, jobVars, keyVars, budgetVars, putVars, lcall, lcalls>>

\* One time unit passes for the ledger.
LedgerTick ==
    /\ \E t \in LedgerTokens : lstore[t].present
    /\ lstore' = [t \in LedgerTokens |->
                    IF lstore[t].present /\ lstore[t].ttl = 1 THEN AbsentRecord
                    ELSE IF lstore[t].present THEN [lstore[t] EXCEPT !.ttl = @ - 1]
                    ELSE lstore[t]]
    /\ UNCHANGED <<orchVars, jobVars, keyVars, budgetVars, putVars, lpc, lcall, lresp, lcalls>>

NextLedger ==
    \/ LedgerStart
    \/ LedgerCheck
    \/ LedgerRecord
    \/ LedgerTick

Init == OrchInit /\ JobInit /\ KeyIdle /\ BudgetInit /\ PutInit /\ LedgerInit

InitKey == OrchInit /\ JobInit /\ KeyInit /\ BudgetInit /\ PutInit /\ LedgerInit

\* Requests of the five kinds under shared idempotency keys.
SpecLedger == Init /\ [][NextLedger]_vars

SpecPut == Init /\ [][NextPut]_vars

SpecBudget == Init /\ [][NextBudget]_vars

NextKey == ComputeKeys

SpecKey == InitKey /\ [][NextKey]_vars

Next ==
    \/ \E p \in Procs : Start(p)
    \/ \E p \in Procs : Handler(p)
    \/ Tick

Spec == Init /\ [][Next]_vars

NextRace ==
    \/ \E p \in Procs : StartRace(p)
    \/ \E p \in Procs : RaceHandler(p)
    \/ Tick

SpecRace == Init /\ [][NextRace]_vars

NextDel ==
    \/ \E p \in Procs : StartDel(p)
    \/ \E p \in Procs : RaceHandler(p)
    \/ \E p \in Procs : ReleaseFails(p)
    \/ Tick

\* Concurrent requests against a store whose DEL may fail.
SpecDel == Init /\ [][NextDel]_vars

NextLive ==
    \/ \E p \in Procs : StartLive(p)
    \/ \E p \in Procs : RaceHandler(p)
    \/ Tick

\* Concurrent requests with time that never stops: the store goes on counting
\* down the TTLs of its keys whatever the request handlers do.  No fairness
\* is assumed of the handlers, so a handler may stop for ever at any step (a
\* request that hangs, or a worker that crashed).
SpecLive == Init /\ [][NextLive]_vars /\ WF_vars(Tick)

NextSeq ==
    \/ StartSeq
    \/ SeqHandler
    \/ TickSeq

SpecSeq == Init /\ [][NextSeq]_vars

NextTok ==
    \/ \E p \in Procs : StartTok(p)
    \/ \E p \in Procs : TokHandler(p)
    \/ Tick

NextQuota ==
    \/ StartQuota
    \/ Step(SeqClient)
    \/ TickSeq

SpecQuota == Init /\ [][NextQuota]_vars

NextErr ==
    \/ \E p \in Procs : StartErr(p)
    \/ \E p \in Procs : RaceHandler(p)
    \/ \E p \in Procs : CacheReadFails(p)
    \/ \E p \in Procs : RateExpireFails(p)
    \/ Tick

\* Concurrent requests against a store whose reads and EXPIRE may fail.
SpecErr == Init /\ [][NextErr]_vars

NextWindow ==
    \/ StartWindow
    \/ Step(SeqClient)
    \/ TickSeq

\* One subject's requests against its rate counter over several windows.
SpecWindow == Init /\ [][NextWindow]_vars

SpecTok == Init /\ [][NextTok]_vars

SpecJob == Init /\ [][NextJob]_vars

NextJobLive ==
    \/ \E j \in Jobs : CreateHset(j)
    \/ \E j \in Jobs : CreateExpire(j)
    \/ \E j \in Jobs : CreateSetex(j)
    \/ \E j \in Jobs : UpdateHset(j)
    \/ \E j \in Jobs : UpdateSetex(j)
    \/ \E j \in Jobs : WorkRaises(j)
    \/ TickJobsLive

\* Jobs under a running event loop and a running store: a handler or a
\* background task that can take its next store call eventually takes it
\* (the call may fail), and time never stops.  Nothing obliges a client to
\* submit a job, nor the work to raise.
SpecJobLive ==
    /\ Init
    /\ [][NextJobLive]_vars
    /\ WF_vars(TickJobsLive)
    /\ \A j \in Jobs : /\ WF_vars(CreateExpire(j))
                        /\ WF_vars(CreateSetex(j))
                        /\ WF_vars(UpdateHset(j))
                        /\ WF_vars(UpdateSetex(j))

(***************************************************************************)
(* Claims about the request orchestration.                                 *)
(***************************************************************************)
Payload(r) == [text |-> r.text, confidence |-> r.confidence]

Other(p) == CHOOSE q \in Procs : q /= p

\* Two token-less, admitted calls for the same image that overlapped in time,
\* both answered, the cache empty when the first began, no inference failure
\* and no lock key removed by its TTL.
ConcurrentPair ==
    /\ \A p \in Procs :
          /\ pc[p] = "done"
          /\ req[p].url = ContendedUrl
          /\ req[p].token = ""
          /\ {"overlap", "admitted"} \subseteq ev[p]
          /\ resp[p].status /= "INFER_FAILED"
    /\ \E p \in Procs : "cold" \in ev[p]
    /\ lockExpired[ContendedUrl] = {}

\* C1: of two concurrent calls for the same fingerprint (no lock expiry, no
\* store error) exactly one executes infer(), and the other returns the
\* first's cached payload with cacheHit=true or LOCK_UNAVAILABLE.
C1_ExactlyOneInfer ==
    ConcurrentPair =>
        \E p \in Procs :
            /\ "infer" \in ev[p]
            /\ "infer" \notin ev[Other(p)]
            /\ \/ resp[Other(p)].status = "LOCK_UNAVAILABLE"
               \/ /\ resp[Other(p)].status = "ok"
                  /\ resp[Other(p)].cache_hit
                  /\ Payload(resp[Other(p)]) = Payload(resp[p])

InFlight(u) == {p \in Procs : pc[p] = "infer" /\ ocr_lock_key(req[p].url) = u}

\* C2: for every fingerprint at most one infer() is in flight, provided no
\* holder's lock TTL has elapsed while its infer() was still running.
C2_OneInFlight ==
    \A u \in Urls :
        "while_infer" \notin lockExpired[u] => Cardinality(InFlight(u)) <= 1

\* The client has been answered, and its previous call carried the same token
\* and image, returned a fresh result, and no idempotency record has expired
\* since that call began.
ReplayOfFresh ==
    /\ pc[SeqClient] = "done"
    /\ hist.valid
    /\ hist.req.token /= ""
    /\ req[SeqClient].token = hist.req.token
    /\ req[SeqClient].url = hist.req.url
    /\ hist.resp.status = "ok"
    /\ ~hist.resp.cache_hit
    /\ "idem" \notin (hist.expired \cup ttlExpired)

\* C3: after a call with token T returned a fresh result, a later call with
\* the same T and parameters, made before the record expires, returns the same
\* payload in every field (text and confidence) and does not invoke infer().
C3_ReplayIdentical ==
    ReplayOfFresh =>
        /\ resp[SeqClient].status = "ok"
        /\ Payload(resp[SeqClient]) = Payload(hist.resp)
        /\ "infer" \notin ev[SeqClient]

\* Two successive token-less calls of an admitted subject for the same image,
\* the cache entry absent when the first began, the first's inference
\* successful, and no cache entry expired since the first began.
MissThenCall ==
    /\ pc[SeqClient] = "done"
    /\ hist.valid
    /\ hist.req.token = ""
    /\ req[SeqClient].token = ""
    /\ req[SeqClient].url = hist.req.url
    /\ "cold" \in hist.ev
    /\ "admitted" \in hist.ev
    /\ "admitted" \in ev[SeqClient]
    /\ hist.resp.status = "ok"
    /\ "cache" \notin (hist.expired \cup ttlExpired)

\* C4: two calls made one after the other by an admitted subject, without
\* token and without TTL expiry in between, return cacheHit=false and then
\* cacheHit=true, the second payload equal to the first.
C4_MissThenHit ==
    MissThenCall =>
        /\ ~hist.resp.cache_hit
        /\ resp[SeqClient].status = "ok"
        /\ resp[SeqClient].cache_hit
        /\ Payload(resp[SeqClient]) = Payload(hist.resp)

C4_Witness ==
    /\ MissThenCall
    /\ resp[SeqClient].cache_hit
    /\ resp[SeqClient].text = "placeholder text"
    /\ "infer" \in hist.ev

\* C5: the (N+1)-th non-replay request inside the window fails with
\* RATE_LIMITED, and once W has elapsed since the window began the counter
\* has reset and the subject's next request is admitted.
C5_WindowResets ==
    \A p \in Procs :
        /\ "over_limit" \in ev[p] /\ pc[p] = "done" => resp[p].status = "RATE_LIMITED"
        /\ "window_elapsed" \in ev[p] => "admitted" \in ev[p]

\* C6: infer() is started only by a request that missed the replay check, was
\* admitted by the rate limiter, missed the cache and acquired the lock; a
\* request that hits the cache or fails to acquire the lock never starts it.
C6_InferGuarded ==
    \A p \in Procs :
        /\ "infer" \in ev[p] =>
              {"replay_miss", "admitted", "cache_miss", "lock_acquired"} \subseteq ev[p]
        /\ ("cache_hit" \in ev[p] \/ "lock_denied" \in ev[p]) => "infer" \notin ev[p]

C6_Witness ==
    /\ pc["p1"] = "infer"
    /\ "lock_denied" \in ev["p2"]
    /\ pc["p2"] = "done"
    /\ resp["p2"].status = "LOCK_UNAVAILABLE"

\* C7: a request whose token has a live idempotency record, whatever the
\* recorded payload, is answered from the record with cacheHit=true and does
\* not call the rate limiter.
C7_ReplayBypassesLimiter ==
    \A p \in Procs :
        "idem_live" \in ev[p] =>
            /\ "rate_called" \notin ev[p]
            /\ pc[p] = "done" => resp[p].status = "ok" /\ resp[p].cache_hit

(***************************************************************************)
(* Claims about the async job state machine.                               *)
(***************************************************************************)
\* The record has lived since create_job wrote it.
Alive(j) == job[j].present /\ ~jh[j].expired

\* C8: a new job reads back PENDING with progress 0; after
\* update(PROCESSING, p) it reads back PROCESSING with progress p; after
\* update(COMPLETED, result R) it reads back COMPLETED with result R and a
\* completedAt that is set and not earlier than createdAt.
C8_JobLifecycle ==
    \A j \in Jobs :
        Alive(j) =>
            LET v == get_job_status(j)
            IN  /\ jpc[j] = "created" =>
                       v.status = "pending" /\ v.progress_percent = 0
                /\ jh[j].last = "processing" =>
                       v.status = "processing" /\ v.progress_percent = jh[j].progress
                /\ jh[j].last = "completed" =>
                       /\ v.status = "completed"
                       /\ v.result = jh[j].result
                       /\ v.completed_at /= NoField
                       /\ v.completed_at >= v.created_at

\* A job completed some time after its creation with the sample OCR result.
C8_Witness ==
    \E j \in Jobs :
        /\ Alive(j)
        /\ jh[j].last = "completed"
        /\ get_job_status(j).result = "ocr"
        /\ get_job_status(j).progress_percent = 100
        /\ get_job_status(j).completed_at > get_job_status(j).created_at

Rank(status) ==
    CASE status = "pending" -> 0
      [] status = "processing" -> 1
      [] OTHER -> 2

Terminal == {"completed", "failed"}

\* C9: the status of a job record never moves backwards and a terminal status
\* never changes, store failures during an update included.
C9_StatusMonotonic ==
    [][\A j \in Jobs :
          job[j].present /\ job'[j].present =>
              /\ Rank(job[j].status) <= Rank(job'[j].status)
              /\ job[j].status \in Terminal => job'[j].status = job[j].status]_vars

\* C10: from the update that set a result or an error, the job record stays
\* readable for the whole retention window.
C10_TerminalRetained ==
    \A j \in Jobs :
        jh[j].sinceTerminal /= NoField /\ jh[j].sinceTerminal < job_retention =>
            get_job_status(j).found

\* C11: once the TTL of a job record has expired, get_job_status reports the
\* job as not found ever after, whatever the dispatcher does later.
C11_ExpiredStaysAbsent ==
    \A j \in Jobs : jh[j].expired => ~get_job_status(j).found

\* C12: when the job's work raises, the status COMPLETED is never written for
\* that job, and once the dispatcher has finished (no store call having
\* failed) the record reads FAILED with the message of the exception.
C12_WorkFailureFails ==
    \A j \in Jobs :
        jh[j].raised =>
            /\ ~jh[j].wasCompleted
            /\ get_job_status(j).status /= "completed"
            /\ jpc[j] = "done" /\ failures = 0 /\ get_job_status(j).found =>
                   /\ get_job_status(j).status = "failed"
                   /\ get_job_status(j).error = jexc[j]

\* A job whose work raised "work error" after the first progress update and
\* whose dispatcher has finished.
C12_Witness ==
    \E j \in Jobs :
        /\ jh[j].raised
        /\ jpc[j] = "done"
        /\ failures = 0
        /\ get_job_status(j).status = "failed"
        /\ get_job_status(j).error = "work error"
        /\ get_job_status(j).progress_percent = 10

(***************************************************************************)
(* Further claims about the request orchestration.                         *)
(***************************************************************************)
\* C13: when infer() fails in a call that holds the lock, the call's next
\* step returns the failure to the caller, leaves the cache and the
\* idempotency ledger as they are, and the lock is free when it returns; the
\* call has written neither a cache entry nor an idempotency record.
C13_InferFailure ==
    [][\A p \in Procs :
          pc[p] = "release" /\ ~loc[p].result.ok /\ pc'[p] /= pc[p] =>
              /\ pc'[p] = "done"
              /\ resp'[p].status = "INFER_FAILED"
              /\ cache' = cache
              /\ idem' = idem
              /\ lock'[ocr_lock_key(req[p].url)] = 0
              /\ ev'[p] \cap {"cache_put", "idem_put"} = {}]_vars

\* A call whose inference failed while another request was in flight has
\* returned the failure and the lock is free.
C13_Witness ==
    \E p \in Procs :
        /\ pc[p] = "done"
        /\ resp[p].status = "INFER_FAILED"
        /\ {"infer", "released", "overlap"} \subseteq ev[p]
        /\ lock[ocr_lock_key(req[p].url)] = 0
        /\ ~cache[ocr_cache_key(req[p].url)].present

\* C14: there is no state in which a lock holder's infer() has succeeded, its
\* lock is already free and the cache entry of its fingerprint is not yet
\* written.
C14_PutBeforeRelease ==
    \A p \in Procs :
        ~ /\ pc[p] = "hset"
          /\ loc[p].result.ok
          /\ "released" \in ev[p]
          /\ lock[ocr_lock_key(req[p].url)] = 0
          /\ ~cache[ocr_cache_key(req[p].url)].present

\* C15: while an idempotency record exists for a token, no step overwrites it:
\* its payload stays and its remaining TTL only counts down.
C15_RecordWrittenOnce ==
    [][\A t \in Tokens \ {""} :
          idem[t].present /\ idem'[t].present =>
              /\ idem'[t].value = idem[t].value
              /\ idem'[t].ttl <= idem[t].ttl]_vars

\* The call of p has just written its idempotency record.
Recorded(p) == "idem_put" \in ev'[p] /\ "idem_put" \notin ev[p]

\* C16: a call writes an idempotency record exactly when it carried a token
\* and produced a fresh result, with the TTL that its cache put returned; the
\* ledger changes in no other way (but by the passing of time), so calls that
\* end in a cache hit, a fallback, a rejection or an inference failure write
\* no record.
C16_RecordOnlyWhenFresh ==
    [][/\ \A p \in Procs :
            /\ pc'[p] = "done" =>
                   ("idem_put" \in ev'[p] <=>
                        /\ req'[p].token /= ""
                        /\ resp'[p].status = "ok"
                        /\ ~resp'[p].cache_hit)
            /\ Recorded(p) =>
                   /\ "cache_put" \in ev[p]
                   /\ resp'[p].ttl_seconds = cache_ttl_ocr_seconds
                   /\ idem'[req[p].token] =
                          [present |-> TRUE, value |-> resp'[p].text,
                           ttl |-> resp'[p].ttl_seconds]
       /\ \A t \in Tokens \ {""} :
            idem'[t] /= idem[t] =>
                \/ idem'[t] = AgedStr(idem[t])
                \/ \E p \in Procs : Recorded(p) /\ req[p].token = t]_vars

\* A call with a token has answered a fresh result and its record is in the
\* ledger while the other request, which hit the cache, has written none.
C16_Witness ==
    \E p \in Procs :
        /\ pc[p] = "done" /\ pc[Other(p)] = "done"
        /\ "idem_put" \in ev[p]
        /\ ~resp[p].cache_hit
        /\ idem[req[p].token].present
        /\ idem[req[p].token].ttl = cache_ttl_ocr_seconds
        /\ req[Other(p)].token = ""
        /\ resp[Other(p)].cache_hit
        /\ "idem_put" \notin ev[Other(p)]

\* The client has sent rate_limit_requests + 1 identical requests, all inside
\* one window of its rate counter, the first of which was answered, and
\* neither the counter nor the cache entry has expired.
QuotaExhausted ==
    /\ Len(log) = rate_limit_requests
    /\ pc[SeqClient] = "done"
    /\ log[1].status = "ok"
    /\ ttlExpired \cap {"rate", "cache"} = {}
    /\ "window_elapsed" \notin ev[SeqClient]

\* C17: a request reads the cache only after the rate limiter admitted it, so
\* cache hits consume quota: N + 1 identical requests inside one window are
\* answered by one miss, N - 1 cache hits and RATE_LIMITED, although the result
\* is still cached.
C17_HitsConsumeQuota ==
    /\ ev[SeqClient] \cap {"cache_hit", "cache_miss"} /= {} =>
           {"rate_called", "admitted"} \subseteq ev[SeqClient]
    /\ QuotaExhausted =>
           /\ ~log[1].cache_hit
           /\ \A i \in 2..rate_limit_requests :
                  log[i].status = "ok" /\ log[i].cache_hit
           /\ resp[SeqClient].status = "RATE_LIMITED"
           /\ HashExists(ContendedUrl)

\* The last of the N + 1 requests has been rejected while the entry is cached.
C17_Witness ==
    /\ QuotaExhausted
    /\ resp[SeqClient].status = "RATE_LIMITED"
    /\ log[rate_limit_requests].cache_hit
    /\ HashExists(ContendedUrl)
    /\ "cache_hit" \notin ev[SeqClient]

\* What a request leaves in its events when it touches the cache, the lock,
\* the inference or the idempotency ledger.
BeyondLimiter ==
    {"cache_hit", "cache_miss", "recheck_miss", "fallback_hit", "lock_acquired",
     "lock_denied", "infer", "released", "cache_put", "idem_put"}

\* C18: a request that the rate limiter counts over the limit ends there with
\* RATE_LIMITED; its step increments the subject's counter and refreshes its
\* expiry and changes nothing else, and the request has touched neither the
\* cache, nor the lock, nor infer(), nor the idempotency ledger.
C18_RejectedHasNoEffect ==
    [][\A p \in Procs :
          /\ "over_limit" \in ev'[p] =>
                 /\ pc'[p] = "done"
                 /\ resp'[p].status = "RATE_LIMITED"
                 /\ ev'[p] \cap BeyondLimiter = {}
          /\ pc[p] = "rate" /\ pc'[p] = "done" =>
                 /\ resp'[p].status = "RATE_LIMITED"
                 /\ rate' = [rate EXCEPT ![req[p].subject] =
                                [count |-> @.count + 1,
                                 ttl |-> rate_limit_window_seconds]]
                 /\ cache' = cache
                 /\ lock' = lock
                 /\ idem' = idem]_vars

\* A request with a token has been rejected while the result it asks for is
\* cached.
C18_Witness ==
    /\ pc[SeqClient] = "done"
    /\ resp[SeqClient].status = "RATE_LIMITED"
    /\ req[SeqClient].token /= ""
    /\ rate[req[SeqClient].subject].count = rate_limit_requests + 1
    /\ HashExists(req[SeqClient].url)

\* C19: a request that was denied the lock re-reads the cache of its own
\* fingerprint once and answers that entry with cache_hit = true if it is
\* there, else LOCK_UNAVAILABLE; none of its steps changes the lock, the cache
\* or the idempotency ledger, and it neither infers nor releases.
C19_DeniedFallsBack ==
    [][\A p \in Procs :
          /\ "lock_denied" \in ev'[p] =>
                 ev'[p] \cap {"lock_acquired", "infer", "released", "cache_put",
                              "idem_put"} = {}
          /\ pc[p] = "lock" /\ pc'[p] = "recheck" => lock' = lock
          /\ "lock_denied" \in ev[p] /\ pc'[p] /= pc[p] /\ Active(p) =>
                 lock' = lock /\ cache' = cache /\ idem' = idem
          /\ pc[p] = "recheck" /\ pc'[p] = "cache_ttl" =>
                 /\ cache[ocr_cache_key(req[p].url)].present
                 /\ loc'[p].text = cache[ocr_cache_key(req[p].url)].text
                 /\ loc'[p].confidence = cache[ocr_cache_key(req[p].url)].confidence
          /\ "lock_denied" \in ev'[p] /\ pc'[p] = "done" =>
                 \/ /\ "fallback_hit" \in ev'[p]
                    /\ "recheck_miss" \notin ev'[p]
                    /\ resp'[p].status = "ok"
                    /\ resp'[p].cache_hit
                 \/ /\ "recheck_miss" \in ev'[p]
                    /\ "fallback_hit" \notin ev'[p]
                    /\ resp'[p].status = "LOCK_UNAVAILABLE"]_vars

\* A request that was denied the lock has answered the entry the holder wrote
\* in the meantime.
C19_Witness ==
    \E p \in Procs :
        /\ pc[p] = "done"
        /\ {"cache_miss", "lock_denied", "fallback_hit"} \subseteq ev[p]
        /\ resp[p].cache_hit
        /\ resp[p].text = "placeholder text"
        /\ "cache_put" \in ev[Other(p)]

(***************************************************************************)
(* Claims about the cache keys.                                            *)
(***************************************************************************)
\* C20: two requests of one kind get the same cache key exactly when they
\* pass the same arguments to infer().
C20_KeyInjective ==
    kkey /= NoKeys /\ kreq[1].kind = kreq[2].kind =>
        (kkey[1] = kkey[2] <=> InferArgs(kreq[1]) = InferArgs(kreq[2]))

\* The client's previous call completed a cache put for an image, its next
\* call read the cache for the same image, and no cache entry reached the end
\* of its TTL since the previous call began.
PutThenGet ==
    /\ pc[SeqClient] = "done"
    /\ hist.valid
    /\ "cache_put" \in hist.ev
    /\ req[SeqClient].url = hist.req.url
    /\ ev[SeqClient] \cap {"cache_hit", "cache_miss"} /= {}
    /\ "cache" \notin (hist.expired \cup ttlExpired)

\* C21: a cache put followed at once by a get for the same fingerprint is a
\* hit that returns exactly the payload just written and a remaining TTL t
\* with 0 <= t <= the configured TTL (never negative, never the unset value).
C21_PutThenGetHits ==
    PutThenGet =>
        /\ resp[SeqClient].status = "ok"
        /\ resp[SeqClient].cache_hit
        /\ Payload(resp[SeqClient]) = Payload(hist.resp)
        /\ resp[SeqClient].ttl_seconds \in 0..cache_ttl_ocr_seconds

C21_Witness ==
    /\ PutThenGet
    /\ resp[SeqClient].cache_hit
    /\ resp[SeqClient].text = "placeholder text"
    /\ resp[SeqClient].ttl_seconds = cache_ttl_ocr_seconds

\* Request p returns from release_lock in this step.
Releases(p) == pc[p] = "release" /\ pc'[p] /= "release"

\* C22: a lock acquired by a caller stays held until that caller releases it
\* or its TTL elapses; a release issued by a caller whose own lock has
\* expired never removes the lock another caller has since acquired.
C22_OnlyOwnerReleases ==
    [][\A u \in Urls :
          (lockOwner[u].how = "held" /\ lock'[u] = 0) =>
              \/ Releases(lockOwner[u].proc)
              \/ lock[u] = 1 /\ pc' = pc]_vars

\* C23: after a second caller acquired a lock whose first holder ran past the
\* TTL, no third caller acquires it until the second caller releases or a
\* further TTL elapses: a lock is only ever acquired after the key of the
\* previous holder ended by that holder's release or by its TTL.
C23_OneMorePerWindow ==
    [][\A p \in Procs :
          (pc[p] = "lock" /\ pc'[p] = "infer") =>
              lockOwner[ocr_lock_key(req[p].url)].how /= "deleted"]_vars

(***************************************************************************)
(* Claims about the lock TTL and the inference timeouts.                   *)
(***************************************************************************)
\* C24: for every request kind the lock TTL is strictly greater than the
\* kind's inference timeout, so the lock key never expires while its
\* holder's inference is still within its timeout budget.
C24_LockOutlivesInfer ==
    (bphase = "running" /\ bclock <= Timeout(bkind)) => block > 0

\* C25: a lock key never outlives its TTL: it is set with at most lock_ttl
\* to live, no store call extends a key that exists, and whatever its holder
\* does (it may hang or crash without releasing) the key is eventually gone
\* and acquire_lock on it succeeds again.
C25_NoLockForever ==
    /\ [](\A u \in Urls : lock[u] \in 0..lock_ttl_seconds)
    /\ [][\A u \in Urls : lock'[u] > lock[u] => lock[u] = 0]_vars
    /\ \A u \in Urls : (lock[u] /= 0) ~> acquire_lock(u)

\* A holder still inside its inference whose lock key expired, and another
\* request that acquired the key after it.
C25_Witness ==
    \E p \in Procs :
        /\ pc[p] = "infer"
        /\ pc[Other(p)] = "infer"
        /\ req[p].url = req[Other(p)].url
        /\ "while_infer" \in lockExpired[req[p].url]
        /\ lockOwner[req[p].url] = [proc |-> Other(p), how |-> "held", left |-> 0]

\* C26: when the store's delete fails during release, the failure is
\* swallowed: with_lock still returns the inference's result (or propagates
\* the inference's own failure), the caller goes on to write the cache, and
\* the lock key is left as it is, to expire by its TTL.
C26_DeleteFailureSwallowed ==
    /\ [][\A p \in Procs :
            ("release_failed" \in ev'[p] /\ "release_failed" \notin ev[p]) =>
                /\ lock' = lock
                /\ IF loc[p].result.ok
                   THEN pc'[p] = "hset" /\ loc'[p] = loc[p]
                   ELSE pc'[p] = "done" /\ resp'[p].status = "INFER_FAILED"]_vars
    /\ [](\A p \in Procs :
            ("release_failed" \in ev[p] /\ pc[p] = "done") =>
                \/ resp[p].status = "INFER_FAILED" /\ "cache_put" \notin ev[p]
                \/ /\ resp[p].status = "ok"
                   /\ ~resp[p].cache_hit
                   /\ "cache_put" \in ev[p])

\* A request answered with its fresh result after its release failed, the
\* lock key still present.
C26_Witness ==
    \E p \in Procs :
        /\ pc[p] = "done"
        /\ "release_failed" \in ev[p]
        /\ resp[p].status = "ok"
        /\ "cache_put" \in ev[p]
        /\ lock[ocr_lock_key(req[p].url)] > 0
        /\ lockOwner[ocr_lock_key(req[p].url)].proc = p

\* C27: for every kind, two requests map to the same lock key if and only if
\* they map to the same cache key, so no request waits on (or is refused
\* because of) the lock of a request with a different fingerprint.
C27_LockKeyIffCacheKey ==
    kkey /= NoKeys /\ kreq[1].kind = kreq[2].kind =>
        (klock[1] = klock[2] <=> kkey[1] = kkey[2])

(***************************************************************************)
(* Claims about the cache entries.                                         *)
(***************************************************************************)
\* C28: in every reachable state, the states between the two store calls of
\* a put included, every cache entry present in the store has an expiry set,
\* and no cache hit reports an entry without a TTL.
C28_EntriesHaveExpiry ==
    /\ \A u \in Urls : cache[u].present => cache[u].ttl /= NoExpiry
    /\ \A p \in Procs :
          (pc[p] = "done" /\ resp[p].cache_hit) => resp[p].ttl_seconds /= NoExpiry

\* C29: a cache entry is never partially updated: once a put has completed,
\* a get returns exactly the fields of that put's payload, no field value
\* surviving from an earlier entry (a put without confidence over an entry
\* that had one included).
C29_PutReplacesEntry ==
    (mpc = "done" /\ mentry.present) =>
        get_cached_multimodal_llm(mentry) = mpayload

(***************************************************************************)
(* Claims about the rate limiter.                                          *)
(***************************************************************************)
Min(a, b) == IF a <= b THEN a ELSE b

\* C30: rate_limit answers true exactly when the number of rate_limit calls
\* for the subject since its counter last expired, this call and the
\* rejected calls included, is at most the limit; the counter is never
\* negative and never decreases within a window; and of k calls made in one
\* window, in any interleaving, exactly min(k, N) are answered true.
C30_AllowCountsCalls ==
    /\ [](\A s \in Subjects :
            /\ rate[s].count >= 0
            /\ rate[s].count = asked[s].calls
            /\ asked[s].allowed = Min(asked[s].calls, rate_limit_requests))
    /\ [][\A p \in Procs :
            (pc[p] = "rate" /\ pc'[p] /= "rate") =>
                /\ asked'[req[p].subject].calls = asked[req[p].subject].calls + 1
                /\ pc'[p] = "cache" <=>
                       asked'[req[p].subject].calls <= rate_limit_requests]_vars
    /\ [][\A s \in Subjects :
            rate'[s].count < rate[s].count =>
                rate[s].ttl = 1 /\ rate'[s] = AbsentCounter /\ pc' = pc]_vars

\* Three calls in one window of a subject limited to two: two answered true
\* and the third refused.
C30_Witness ==
    /\ asked["s1"] = [calls |-> rate_limit_requests + 1, allowed |-> rate_limit_requests]
    /\ \E p \in Procs :
          /\ pc[p] = "done" /\ resp[p].status = "RATE_LIMITED"
          /\ pc[Other(p)] = "done" /\ resp[Other(p)].status = "ok"

\* C31: the rate limiter has fixed-window semantics: a counter key lives for
\* W from the request that created it, whatever requests follow, so that N
\* requests at the end of one window and N at the start of the next are all
\* admitted within less than W.
C31_FixedWindow ==
    \A s \in Subjects :
        rate[s].count > 0 => rateAge[s] + rate[s].ttl = rate_limit_window_seconds

\* A Tick: time passes and no handler moves.
TimePasses == pc' = pc /\ rate' /= rate

\* C32: every rate_limit call, admitted or rejected, sets the counter's expiry
\* to a full window W from that call; the counter goes only by running out
\* of that time, one unit per unit of time; so a subject at or over its limit
\* is rejected by every call it makes before W has passed without a call.
C32_EveryCallExtends ==
    /\ [][\A p \in Procs :
            (pc[p] = "rate" /\ pc'[p] /= "rate") =>
                LET s == req[p].subject
                IN  /\ rate'[s].ttl = rate_limit_window_seconds
                    /\ rate'[s].count = rate[s].count + 1
                    /\ rate[s].count >= rate_limit_requests =>
                           pc'[p] = "done" /\ resp'[p].status = "RATE_LIMITED"]_vars
    /\ [][\A s \in Subjects :
            /\ rate'[s].count < rate[s].count =>
                   TimePasses /\ rate[s].ttl = 1 /\ rate'[s] = AbsentCounter
            /\ (TimePasses /\ rate[s].ttl > 1) =>
                   rate'[s] = [rate[s] EXCEPT !.ttl = @ - 1]]_vars

\* The subject was refused, went on sending requests less than W apart, and
\* is refused again although its counter key is W old or older.
C32_Witness ==
    /\ Len(log) = MaxWindowCalls - 1
    /\ log[Len(log)].status = "RATE_LIMITED"
    /\ pc[SeqClient] = "done"
    /\ resp[SeqClient].status = "RATE_LIMITED"
    /\ {"window_elapsed", "over_limit"} \subseteq ev[SeqClient]

\* C33: a store failure during the first cache read of a request is treated
\* as a cache miss: the handler goes on to take the lock (and then to the
\* inference) instead of failing with the store's error.
C33_ReadFailureIsMiss ==
    [][\A p \in Procs :
          (pc[p] = "cache" /\ pc'[p] /= "cache" /\ "first_read_failed" \in ev'[p]) =>
              pc'[p] = "lock"]_vars

\* C34: if the EXPIRE of rate_limit fails while the INCR succeeded, the
\* failure is swallowed: the call still answers by the count it has just
\* incremented, admitted to the cache lookup when within the limit and
\* rejected with RATE_LIMITED when over it, never failed by the store error.
C34_ExpireFailureSwallowed ==
    [][\A p \in Procs :
          (pc[p] = "rate" /\ pc'[p] /= "rate") =>
              IF rate'[req[p].subject].count <= rate_limit_requests
              THEN pc'[p] = "cache"
              ELSE pc'[p] = "done" /\ resp'[p].status = "RATE_LIMITED"]_vars

(***************************************************************************)
(* Further claims about the job records.                                   *)
(***************************************************************************)
\* C35: every job record in the store has a finite TTL: a record without
\* expiry exists only for the moment between the HSET and the EXPIRE of a
\* create_job in progress; neither a create_job interrupted between the two
\* nor an update_job_status arriving after the record expired leaves a
\* record that never expires.
C35_RecordsExpire ==
    \A j \in Jobs :
        job[j].present /\ job[j].ttl = NoExpiry => jpc[j] = "create_expire"

\* C36: a job record never has both a result and an error; it has a result
\* only when its status is COMPLETED, an error only when its status is
\* FAILED, and a completed_at exactly when its status is COMPLETED or FAILED.
C36_TerminalFieldsMatchStatus ==
    \A j \in Jobs :
        job[j].present =>
            /\ ~(job[j].result /= Null /\ job[j].error /= Null)
            /\ job[j].result /= Null => job[j].status = "completed"
            /\ job[j].error /= Null => job[j].status = "failed"
            /\ job[j].completed_at /= NoField <=> job[j].status \in Terminal

\* C38: the progress percent read from a job's record is always within
\* 0..100 and never below a value the record held before; it is 0 at
\* creation and 100 whenever the status is COMPLETED.
C38_ProgressMonotonic ==
    \A j \in Jobs :
        get_job_status(j).found =>
            /\ get_job_status(j).progress_percent \in 0..100
            /\ get_job_status(j).progress_percent >= jh[j].top
            /\ jh[j].last = Null => get_job_status(j).progress_percent = 0
            /\ get_job_status(j).status = "completed" =>
                   get_job_status(j).progress_percent = 100

Unfinished == {"pending", "processing"}

\* C37: no job stays in PENDING or PROCESSING for ever: every job record
\* that reads PENDING or PROCESSING eventually reads a terminal status or is
\* gone, and stays so.
C37_NoJobStuck ==
    \A j \in Jobs : <>[](~(job[j].present /\ job[j].status \in Unfinished))

(***************************************************************************)
(* A claim about the idempotency ledger across the endpoints.              *)
(***************************************************************************)
\* C39: a replay hit always yields a well-formed response of the requested
\* kind: the record it is built from was stored by a request of that same
\* kind, and the replay branch answers instead of raising.
C39_ReplayOfOwnKind ==
    lresp.replay => lresp.status = "ok" /\ lresp.by = lresp.kind

====
